---- MODULE Spec2Model ----
(***************************************************************************)
(* Verification model of the cosmic-notifications-ng daemon: the rate      *)
(* limiter, the D-Bus ingress (Notify / CloseNotification), the pipeline   *)
(* driver, and the notification store owned by the application.            *)
(***************************************************************************)
EXTENDS Integers, Sequences, FiniteSets, Bags, TLC

(***************************************************************************)
(* Program constants                                                       *)
(***************************************************************************)
MAX_PER_MINUTE == 60
WINDOW == 60
MAX_APPS == 1000
CLEANUP_INTERVAL == 100
CHANNEL_CAPACITY == 100
EVENT_CAPACITY == 100
DUMMY_ID == 1
DEFAULT_TIMEOUT == 3000
MAX_HIDDEN_MEMORY == 50 * 1024 * 1024
MAX_CONCURRENT_SOUNDS == 4
CONNECT_ATTEMPTS == 5        \* for _ in 0..5 in Conns::new

(***************************************************************************)
(* Bounds of the model                                                     *)
(***************************************************************************)
MaxTime == 62
FloodSize == 999
NumCallers == 5

(***************************************************************************)
(* State                                                                   *)
(***************************************************************************)
VARIABLES
    limiter,    \* Notifications.3: RateLimiter { limits }
    next_id,    \* Notifications.1: the id counter (NonZeroU64)
    conns,      \* Notifications.2: Vec<Connection>, the applet connections
    chan,       \* the command channel (tx, rx) = channel(100) of Input
    now,        \* Instant::now(), in seconds
    clock,      \* SystemTime::now(), the source of Notification.time
    applet_out, \* Notify signals emitted on applet connections, in order
    ret,        \* history: the latest Notify call and what it returned
    ncalls,     \* history: number of client and user requests made so far
    last,       \* history: the latest check_and_update call and its result
    probe,      \* history: accepted calls inside one 60 s observation interval
    win,        \* history: accepted calls since the app's recorded window start
    events,     \* the subscription channel of Event, driver to application
    cards,      \* CosmicNotifications.cards: the visible queue
    hidden,     \* CosmicNotifications.hidden: the history, newest first
    active_surface,   \* CosmicNotifications.active_surface
    notifications_tx, \* CosmicNotifications.notifications_tx is Some
    config,     \* CosmicNotifications.config
    tasks,      \* bag of pending asynchronous work: timers, token requests,
                \* spawned sends, activation futures
    signals,    \* signals emitted on the session bus, in order
    lastop,     \* history: the latest store operation of the application
    call,       \* the Notify call in progress: its position and locals
    iface_lock, \* holder of the write lock of the Notifications interface
    driver,     \* position of the driver loop (Machine<Waiting>::exec)
    gh,         \* the GetHistory call in progress and its oneshot channel
    audio,      \* ACTIVE_SOUNDS, the play_sound_file calls and the workers
    boot,       \* the subscription worker's startup: Conns::new, Start::exec
    util        \* the call of a cosmic-notifications-util function in
                \* progress: its input, its position and its value

rlHist == <<last, probe, win>>
ingressVars == <<limiter, next_id, conns, chan, applet_out, ret, ncalls>>
appVars == <<events, cards, hidden, active_surface, notifications_tx, config,
             tasks, signals, lastop>>
stepVars == <<call, iface_lock, driver, gh, audio, boot, util>>
vars == <<limiter, next_id, conns, chan, now, clock, applet_out, ret, ncalls,
          last, probe, win, stepVars, events, cards, hidden, active_surface,
          notifications_tx, config, tasks, signals, lastop>>

\* Application names that call Notify by name, and a stand-in for "an
\* application name that has no entry in the table yet".
RLApps == {"a"}
Fresh == "fresh"

(***************************************************************************)
(* RateLimiter                                                             *)
(*   limits: HashMap<String, (Instant, u32)>.  Entries of the named apps   *)
(*   are kept in `limits`; entries of one-shot anonymous apps only matter  *)
(*   through their window start, and are counted per start in `others`.    *)
(***************************************************************************)
RateLimiterNew == [limits |-> << >>, others |-> {}]

RECURSIVE SumN(_)
SumN(S) == IF S = {} THEN 0
           ELSE LET e == CHOOSE x \in S : TRUE IN e.n + SumN(S \ {e})

\* self.limits.len()
LimitsLen(rl) == Cardinality(DOMAIN rl.limits) + SumN(rl.others)

\* RateLimiter::cleanup: retain entries with now - start <= WINDOW
cleanup(rl, t) ==
    LET keep == {a \in DOMAIN rl.limits : t - rl.limits[a].start <= WINDOW}
    IN  [limits |-> [a \in keep |-> rl.limits[a]],
         others |-> {e \in rl.others : t - e.start <= WINDOW}]

\* k more anonymous entries with window start t
AddFresh(rl, k, t) ==
    LET same == {e \in rl.others : e.start = t}
        have == SumN(same)
    IN  IF k = 0 THEN rl
        ELSE [rl EXCEPT !.others =
                 (@ \ same) \cup {[start |-> t, n |-> have + k]}]

\* *entry = value, for the entry of `app`
PutEntry(rl, app, e) ==
    IF app = Fresh
    THEN AddFresh(rl, e.count, e.start)
    ELSE [rl EXCEPT !.limits =
             [a \in (DOMAIN rl.limits) \cup {app} |->
                 IF a = app THEN e ELSE rl.limits[a]]]

\* The comparison of the per-window count with MAX_PER_MINUTE.
OverLimitOff(count) == count > MAX_PER_MINUTE
OverLimit(count) == count >= MAX_PER_MINUTE

\* The test self.limits.len() >= Self::MAX_APPS.
TableFullOff(rl) == LimitsLen(rl) > MAX_APPS
TableFull(rl) == LimitsLen(rl) >= MAX_APPS

\* RateLimiter::check_and_update(app_name) at instant t.
\* Returns the new limiter and the boolean result.
check_and_update(rl, app, t) ==
    LET r1 == IF TableFull(rl) THEN cleanup(rl, t) ELSE rl
    IN  IF TableFull(r1)
        THEN [rl |-> r1, ok |-> FALSE]
        ELSE LET entry == IF app \in DOMAIN r1.limits
                          THEN r1.limits[app]
                          ELSE [start |-> t, count |-> 0]
             IN  IF t - entry.start > WINDOW
                 THEN [rl |-> PutEntry(r1, app, [start |-> t, count |-> 1]),
                       ok |-> TRUE]
                 ELSE IF OverLimit(entry.count)
                 THEN [rl |-> r1, ok |-> FALSE]
                 ELSE [rl |-> PutEntry(r1, app,
                                 [entry EXCEPT !.count = @ + 1]),
                       ok |-> TRUE]

Min(x, y) == IF x <= y THEN x ELSE y

\* k successive check_and_update calls, each from a different application
\* that has no entry yet, all at instant t.  Calls are accepted until the
\* table holds MAX_APPS entries; the next call then runs cleanup, and the
\* calls after it are accepted until the table is full again; a further
\* cleanup at the same instant removes nothing, so the rest are rejected.
FreshCalls(rl, k, t) ==
    LET room == MAX_APPS - LimitsLen(rl)
        a1 == IF room < 0 THEN 0 ELSE Min(k, room)
        r1 == AddFresh(rl, a1, t)
    IN  IF a1 = k THEN r1
        ELSE LET r2 == cleanup(r1, t)
                 a2 == Min(k - a1, MAX_APPS - LimitsLen(r2))
             IN  AddFresh(r2, a2, t)

(***************************************************************************)
(* The application after construction (CosmicNotifications::init) and the  *)
(* pipeline once the bus connection is built: Ready is the first event.    *)
(***************************************************************************)
\* Option::None for a timeout cap (the caps themselves are u32).
NoCap == 0 - 1

\* NotificationsConfig::default().
DefaultConfig ==
    [do_not_disturb |-> FALSE, max_notifications |-> 3, max_per_app |-> 2,
     max_timeout_urgent |-> NoCap, max_timeout_normal |-> 5000,
     max_timeout_low |-> 3000]

\* Notification::estimated_size() of a notification with empty strings, no
\* actions and no hints: the struct overhead.
BaseSize == 200

\* CloseReason.
Expired == 1
Dismissed == 2
CloseNotification == 3

\* Option::None for a requested action.
NoAction == "<none>"

NoNotification ==
    [id |-> 0, app_name |-> "", urgency |-> 0, expire_timeout |-> 0,
     transient |-> FALSE, actions |-> << >>, size |-> 0, time |-> 0]

\* lastop: the operation, the id it was about, whether it found the id,
\* where (0-based) and how long the queue it found it in was, how long the
\* hidden history was, the notification it moved, removed, installed or
\* activated, and for an activation the action key that was requested.
NoOp == [op |-> "none", id |-> 0, found |-> FALSE, pos |-> 0, len |-> 0,
         hlen |-> 0, n |-> NoNotification, action |-> NoAction]

InitApp ==
    /\ events = <<[kind |-> "Ready"]>>
    /\ cards = << >>
    /\ hidden = << >>
    /\ active_surface = FALSE
    /\ notifications_tx = FALSE
    /\ config = DefaultConfig
    /\ tasks = EmptyBag
    /\ signals = << >>
    /\ lastop = NoOp

(***************************************************************************)
(* The parts of the program that are at rest after construction: no Notify *)
(* call is in progress and the interface lock is free, the driver waits in *)
(* recv, no GetHistory call is in progress, no sound is being played       *)
(* (static ACTIVE_SOUNDS: AtomicUsize = AtomicUsize::new(0)), and the      *)
(* subscription worker has finished its startup.                           *)
(***************************************************************************)
NoNotifyCall == [pc |-> "idle", rid |-> 0, n |-> NoNotification,
                 todo |-> << >>, new_conns |-> << >>]
DriverRecv == [pc |-> "recv", conn |-> 0]
NoGetHistory == [pc |-> "idle", seq |-> 0, reply |-> << >>,
                 result |-> "none", list |-> << >>]
\* The audio state: the counter, the number of play_sound_file calls at each
\* position of the counter loop (cas[c]: about to compare_exchange with
\* current = c), the workers in playback and those past their decrement,
\* and as history the exit paths taken so far and the call validated last.
NoSound == [path |-> << >>, result |-> "none"]
AudioIdle == [active |-> 0, load |-> 0,
              cas |-> [c \in 0..(MAX_CONCURRENT_SOUNDS - 1) |-> 0],
              spawn |-> 0, spawn_failed |-> 0,
              playing |-> 0, exiting |-> 0, exits |-> {},
              last |-> NoSound]

\* The startup that has succeeded: the panel connection is set up, the first
\* attempt built the session-bus connection, Machine<Waiting> is running.
\* boot.log lists the outcome of each pass of the loop of Conns::new.
Booted == [pc |-> "waiting", panel |-> TRUE, log |-> <<"ok">>]

\* No function of the utility crate is being called.
NoUtil == [fn |-> "none"]

InitIdle ==
    /\ boot = Booted
    /\ util = NoUtil
    /\ call = NoNotifyCall
    /\ iface_lock = "free"
    /\ driver = DriverRecv
    /\ gh = NoGetHistory
    /\ audio = AudioIdle

(***************************************************************************)
(* Specification SpecRL: the rate limiter driven directly, as its unit     *)
(* tests drive it.                                                         *)
(***************************************************************************)
HalfWindow == WINDOW \div 2
TickSteps == {HalfWindow, HalfWindow + 1}
FloodSizes == {FloodSize, FloodSize + 1}
ProbeStarts == {0, HalfWindow, HalfWindow + 1}

NoCall == [app |-> "none", had |-> FALSE, start |-> 0, count |-> 0,
           at |-> 0, ok |-> FALSE, postStart |-> 0, postCount |-> 0]

\* ret.prev_new is the id the latest accepted call with replaces_id = 0
\* before this one returned (0: there was none).
NoRet == [seq |-> 0, rid |-> 0, denied |-> FALSE, id |-> 0,
          transient |-> FALSE, oc |-> << >>, attempted |-> << >>,
          prev_new |-> 0]

\* The id returned by the latest accepted call with replaces_id = 0, the
\* call recorded in r included.
Newest(r) == IF r.seq > 0 /\ r.rid = 0 /\ ~r.denied THEN r.id ELSE r.prev_new

\* The variables the rate limiter does not touch.
notRL == <<next_id, conns, chan, clock, applet_out, ret, ncalls, appVars,
           stepVars>>

InitRL ==
    /\ limiter = RateLimiterNew
    /\ now = 0
    /\ next_id = 1 /\ conns = << >> /\ chan = << >> /\ clock = 0
    /\ applet_out = << >> /\ ret = NoRet /\ ncalls = 0
    /\ last = NoCall
    /\ probe \in [start : ProbeStarts, n : {0}]
    /\ win = [a \in RLApps |-> [start |-> 0 - 1, n |-> 0]]
    /\ InitIdle
    /\ InitApp

\* One check_and_update(app) call by a named application.
RLCheck(app) ==
    LET had == app \in DOMAIN limiter.limits
        r == check_and_update(limiter, app, now)
        hasPost == app \in DOMAIN r.rl.limits
    IN  /\ limiter' = r.rl
        /\ last' = [app |-> app, had |-> had,
                    start |-> IF had THEN limiter.limits[app].start ELSE 0,
                    count |-> IF had THEN limiter.limits[app].count ELSE 0,
                    at |-> now, ok |-> r.ok,
                    postStart |-> IF hasPost THEN r.rl.limits[app].start ELSE 0,
                    postCount |-> IF hasPost THEN r.rl.limits[app].count ELSE 0]
        /\ probe' = IF r.ok /\ probe.start <= now /\ now <= probe.start + WINDOW
                    THEN [probe EXCEPT !.n = @ + 1] ELSE probe
        /\ win' = IF ~r.ok THEN win
                  ELSE IF win[app].start = r.rl.limits[app].start
                  THEN [win EXCEPT ![app].n = @ + 1]
                  ELSE [win EXCEPT ![app] =
                           [start |-> r.rl.limits[app].start, n |-> 1]]
        /\ UNCHANGED <<now, notRL>>

\* k check_and_update calls from k applications not seen before.
RLFlood(k) ==
    /\ limiter' = FreshCalls(limiter, k, now)
    /\ UNCHANGED <<now, last, probe, win, notRL>>

\* The periodic cleanup() call made by Notify.
RLCleanup ==
    /\ limiter' = cleanup(limiter, now)
    /\ UNCHANGED <<now, last, probe, win, notRL>>

\* Time passes.
RLTick(d) ==
    /\ now + d <= MaxTime
    /\ now' = now + d
    /\ UNCHANGED <<limiter, last, probe, win, notRL>>

NextRL ==
    \/ \E app \in RLApps : RLCheck(app)
    \/ \E k \in FloodSizes : RLFlood(k)
    \/ RLCleanup
    \/ \E d \in TickSteps : RLTick(d)

SpecRL == InitRL /\ [][NextRL]_vars

(***************************************************************************)
(* Claims about the rate limiter (checked under SpecRL)                    *)
(***************************************************************************)

\* C6: for an app that has a recorded window, a check_and_update call made
\* within 60 s of the window start is accepted while fewer than 60 calls were
\* counted in the window and rejected once 60 were counted; the first call
\* made more than 60 s after the window start is accepted and starts a new
\* window with count 1.
C6_WindowCounting ==
    (last.app # "none" /\ last.had) =>
        IF last.at - last.start > WINDOW
        THEN last.ok /\ last.postStart = last.at /\ last.postCount = 1
        ELSE last.ok <=> (last.count < MAX_PER_MINUTE)

\* C7 (as claimed): in every interval of 60 s, wherever it begins, at most 60
\* calls of one app are accepted.
C7_SlidingWindow == probe.n <= MAX_PER_MINUTE

\* C7 (amended): the window is fixed, not sliding: at most 60 calls of an app
\* are accepted while its recorded window start stays the same, that is
\* between the window start and 60 s after it.
C7_FixedWindow == \A a \in RLApps : win[a].n <= MAX_PER_MINUTE

\* C7 witness: 60 calls were accepted in one recorded window and the next
\* call in that window has just been rejected.
C7_Witness ==
    /\ last.app = "a" /\ last.had /\ ~last.ok
    /\ last.at - last.start <= WINDOW
    /\ win["a"].n = MAX_PER_MINUTE
    /\ win["a"].start = last.start

(***************************************************************************)
(* D-Bus ingress: the org.freedesktop.Notifications interface object       *)
(*   Notifications(Sender<Input>, NonZeroU64, Vec<Connection>, RateLimiter)*)
(***************************************************************************)
Range(q) == {q[i] : i \in 1..Len(q)}

\* Notification::new.  `urgency` is what Notification::urgency() returns (the
\* urgency hint, 1 without one), `transient` what Notification::transient()
\* returns, `actions` the action ids in order, `size` what
\* Notification::estimated_size() returns.
NewNotification(app, id, urg, tmo, tr, acts, sz, t) ==
    [id |-> id, app_name |-> app, urgency |-> urg, expire_timeout |-> tmo,
     transient |-> tr, actions |-> acts, size |-> sz, time |-> t]

\* What happens on one applet connection while Notify mirrors the signal:
\* the interface lookup fails or exceeds 100 ms, or it succeeds and the signal
\* emission fails or exceeds 500 ms, or the signal is sent.
MirrorOutcomes == {"sent", "emit_failed", "lookup_failed"}

\* A loop that pushes a connection back only after a successful emission.
KeptConnsSentOnly(cs, oc) == SelectSeq(cs, LAMBDA c : oc[c] = "sent")
\* new_conns: the connections pushed back by the mirroring loop.
KeptConns(cs, oc) == SelectSeq(cs, LAMBDA c : oc[c] # "lookup_failed")

\* A loop that gives up at the first connection whose lookup fails.
RECURSIVE AttemptedUntilFailure(_, _)
AttemptedUntilFailure(cs, oc) ==
    IF cs = << >> \/ oc[Head(cs)] = "lookup_failed" THEN << >>
    ELSE <<Head(cs)>> \o AttemptedUntilFailure(Tail(cs), oc)
\* The connections on which the mirroring loop attempts the Notify signal:
\* it skips (continue) a connection whose lookup fails and goes on.
Attempted(cs, oc) == SelectSeq(cs, LAMBDA c : oc[c] # "lookup_failed")

\* The Notify signals emitted by the mirroring loop, in connection order.
Mirrored(cs, oc, id) ==
    LET sent == SelectSeq(Attempted(cs, oc), LAMBDA c : oc[c] = "sent")
    IN  [i \in 1..Len(sent) |-> [conn |-> sent[i], id |-> id]]

\* The id counter after a Notify call: advanced only for a new notification
\* that passed the rate limiter.  (Ids stay far below 2^32 here, so the
\* truncation to u32 and the wrap of the counter are not modelled.)
AllocIdBeforeCheck(denied, rid, cur) == IF rid # 0 THEN cur ELSE cur + 1
AllocIdOnReplace(denied, rid, cur) == IF denied THEN cur ELSE cur + 1
AllocId(denied, rid, cur) == IF denied \/ rid # 0 THEN cur ELSE cur + 1

\* Whether Notify consults the rate limiter: new notifications only
\* (replaces_id == 0 && ...).
LimitedAlways(rid) == TRUE
Limited(rid) == rid = 0

\* The variables the ingress object does not touch.
notIngress == <<now, clock, last, probe, win, appVars, stepVars>>

\* Notifications::notify(app_name, replaces_id, .., hints, expire_timeout).
\* `oc` gives the outcome of mirroring on each applet connection.
Notify(app, rid, urg, tmo, tr, acts, sz, oc) ==
    LET rl0 == IF next_id % CLEANUP_INTERVAL = 0
               THEN cleanup(limiter, now) ELSE limiter
        chk == IF Limited(rid) THEN check_and_update(rl0, app, now)
               ELSE [rl |-> rl0, ok |-> TRUE]
        denied == ~chk.ok
        id == IF denied THEN DUMMY_ID ELSE IF rid = 0 THEN next_id ELSE rid
        n == NewNotification(app, id, urg, tmo, tr, acts, sz, clock)
        mirror == ~denied /\ ~tr
    IN  /\ denied \/ Len(chan) < CHANNEL_CAPACITY
        /\ limiter' = chk.rl
        /\ next_id' = AllocId(denied, rid, next_id)
        /\ conns' = IF mirror THEN KeptConns(conns, oc) ELSE conns
        /\ applet_out' = IF mirror THEN applet_out \o Mirrored(conns, oc, id)
                         ELSE applet_out
        /\ chan' = IF denied THEN chan
                   ELSE Append(chan,
                          [kind |-> IF rid = 0 THEN "Notification" ELSE "Replace",
                           n |-> n])
        /\ ret' = [seq |-> ret.seq + 1, rid |-> rid, denied |-> denied,
                   id |-> id, transient |-> tr,
                   oc |-> IF mirror THEN oc ELSE << >>,
                   attempted |-> IF mirror THEN Attempted(conns, oc)
                                 ELSE << >>,
                   prev_new |-> Newest(ret)]
        /\ ncalls' = ncalls + 1
        /\ UNCHANGED notIngress

\* The mirroring outcomes to choose from: none when nothing is mirrored.
MirrorChoices(tr) ==
    IF tr THEN {[c \in {} |-> "sent"]} ELSE [Range(conns) -> MirrorOutcomes]

(***************************************************************************)
(* The notification store of the application (src/app.rs): pure parts      *)
(***************************************************************************)
\* Ordering of two notifications by urgency, then by time: the comparator of
\* sort_notifications, a.urgency().cmp(&b.urgency()) then a.time.cmp(&b.time).
Cmp(a, b) ==
    IF a.urgency < b.urgency THEN "Less"
    ELSE IF a.urgency > b.urgency THEN "Greater"
    ELSE IF a.time < b.time THEN "Less"
    ELSE IF a.time > b.time THEN "Greater"
    ELSE "Equal"

\* Insert x into the sorted s behind every element that is not greater.
StableInsert(s, x) ==
    LET k == Cardinality({i \in 1..Len(s) : Cmp(s[i], x) # "Greater"})
    IN  SubSeq(s, 1, k) \o <<x>> \o SubSeq(s, k + 1, Len(s))

\* sort_notifications: Vec::sort_by, a stable sort, ascending by Cmp.
RECURSIVE sort_notifications(_)
sort_notifications(cs) ==
    IF cs = << >> THEN << >>
    ELSE StableInsert(sort_notifications(SubSeq(cs, 1, Len(cs) - 1)),
                      cs[Len(cs)])

\* The comparator closure handed to binary_search_by: element a against the
\* notification n.  The closure in push_notification compares a with n; the
\* method insert_sorted compares n with a.
Probe(a, n, reversed) == IF reversed THEN Cmp(n, a) ELSE Cmp(a, n)

\* The loop of slice::binary_search_by; base and the result are 0-based.
RECURSIVE BSBase(_, _, _, _, _)
BSBase(cs, n, reversed, base, size) ==
    IF size <= 1 THEN base
    ELSE LET half == size \div 2
             mid == base + half
         IN  BSBase(cs, n, reversed,
                    IF Probe(cs[mid + 1], n, reversed) = "Greater"
                    THEN base ELSE mid,
                    size - half)

binary_search_by(cs, n, reversed) ==
    IF Len(cs) = 0 THEN [found |-> FALSE, pos |-> 0]
    ELSE LET base == BSBase(cs, n, reversed, 0, Len(cs))
             c == Probe(cs[base + 1], n, reversed)
         IN  IF c = "Equal" THEN [found |-> TRUE, pos |-> base]
             ELSE [found |-> FALSE,
                   pos |-> IF c = "Less" THEN base + 1 ELSE base]

\* Ok(pos) => cards[pos] = n;  Err(pos) => cards.insert(pos, n).
insert_sorted(cs, n, reversed) ==
    LET r == binary_search_by(cs, n, reversed)
    IN  IF r.found THEN [cs EXCEPT ![r.pos + 1] = n]
        ELSE SubSeq(cs, 1, r.pos) \o <<n>> \o SubSeq(cs, r.pos + 1, Len(cs))

\* The running count of the filter in group_notifications: how many
\* consecutive entries ending at i carry the app_name of entry i.
RunPos(cs, i) ==
    LET breaks == {j \in 1..i : cs[j].app_name # cs[i].app_name}
        lastBreak == IF breaks = {} THEN 0
                     ELSE CHOOSE j \in breaks : \A k \in breaks : k <= j
    IN  i - lastBreak

\* The entries of cs whose index satisfies keep, in order.
RECURSIVE SelectIdx(_, _, _)
SelectIdx(cs, keep, i) ==
    IF i > Len(cs) THEN << >>
    ELSE (IF i \in keep THEN <<cs[i]>> ELSE << >>) \o SelectIdx(cs, keep, i + 1)

\* The second loop of group_notifications: put the extra entries back.
RECURSIVE Regroup(_, _, _)
Regroup(cs, extra, cfg) ==
    IF extra = << >> THEN cs
    ELSE Regroup(IF Len(cs) < cfg.max_notifications
                 THEN insert_sorted(cs, Head(extra), TRUE)
                 ELSE Append(cs, Head(extra)),
                 Tail(extra), cfg)

group_notifications(cs, cfg) ==
    IF cfg.max_per_app = 0 \/ cs = << >> THEN cs
    ELSE LET over == {i \in 1..Len(cs) : RunPos(cs, i) > cfg.max_per_app}
         IN  Regroup(SelectIdx(cs, (1..Len(cs)) \ over, 1),
                     SelectIdx(cs, over, 1), cfg)

\* A delay that takes the cap itself for a negative expire_timeout.
TimerDelayCapForDefault(n, cfg) ==
    LET cap == IF n.urgency = 2 THEN cfg.max_timeout_urgent
               ELSE IF n.urgency = 1 THEN cfg.max_timeout_normal
               ELSE cfg.max_timeout_low
    IN  IF n.expire_timeout < 0 THEN (IF cap = NoCap THEN DEFAULT_TIMEOUT ELSE cap)
        ELSE IF cap = NoCap THEN n.expire_timeout
        ELSE Min(n.expire_timeout, cap)
\* The delay of the timer push_notification schedules; 0 schedules none.
TimerDelay(n, cfg) ==
    LET requested == IF n.expire_timeout >= 0 THEN n.expire_timeout
                     ELSE DEFAULT_TIMEOUT
        cap == IF n.urgency = 2 THEN cfg.max_timeout_urgent
               ELSE IF n.urgency = 1 THEN cfg.max_timeout_normal
               ELSE cfg.max_timeout_low
        max_timeout == IF cap = NoCap THEN requested ELSE cap
    IN  Min(requested, max_timeout)

\* 0-based position of the first entry with id i; callers check HasId first.
HasId(q, i) == \E k \in 1..Len(q) : q[k].id = i
Position(q, i) == (CHOOSE k \in 1..Len(q) :
                      q[k].id = i /\ \A j \in 1..(k - 1) : q[j].id # i) - 1
RemoveAt(q, pos) == SubSeq(q, 1, pos) \o SubSeq(q, pos + 2, Len(q))

\* A count that keeps the whole history.
KeepCountAll(h, total, i) == Len(h)
\* The memory budget of the hidden history, applied by expire.
RECURSIVE KeepCount(_, _, _)
KeepCount(h, total, i) ==
    IF i > Len(h) \/ total + h[i].size > MAX_HIDDEN_MEMORY THEN i - 1
    ELSE KeepCount(h, total + h[i].size, i + 1)

(***************************************************************************)
(* The notification store: the methods of CosmicNotifications.  Each takes *)
(* and returns the part of the application state it works on,              *)
(*   [cards, hidden, active_surface, tasks].                               *)
(***************************************************************************)
Task(kind, id, action, cause) ==
    [kind |-> kind, id |-> id, action |-> action, cause |-> cause]
Spawn(bag, t) == bag (+) SetToBag({t})
Done(bag, t) == bag (-) SetToBag({t})

AppState == [cards |-> cards, hidden |-> hidden,
             active_surface |-> active_surface, tasks |-> tasks]

push_notification(st, n, cfg) ==
    [st EXCEPT
       !.tasks = IF TimerDelay(n, cfg) > 0
                 THEN Spawn(@, Task("Timer", n.id, "", TimerDelay(n, cfg)))
                 ELSE @,
       !.active_surface = IF st.cards = << >> /\ ~cfg.do_not_disturb
                          THEN TRUE ELSE @,
       !.cards = group_notifications(
                     insert_sorted(sort_notifications(@), n, FALSE), cfg)]

replace_notification(st, n, cfg) ==
    IF HasId(st.cards, n.id)
    THEN [st EXCEPT !.cards[Position(st.cards, n.id) + 1] = n]
    ELSE push_notification(st, n, cfg)

expire(st, i, cfg) ==
    IF ~HasId(st.cards, i) THEN st
    ELSE LET c_pos == Position(st.cards, i)
             pushed == <<st.cards[c_pos + 1]>> \o st.hidden
         IN  [st EXCEPT
                !.cards = group_notifications(
                              sort_notifications(RemoveAt(@, c_pos)), cfg),
                !.hidden = SubSeq(pushed, 1, KeepCount(pushed, 0, 1))]

\* A close that retires the notification to the history, as expire does.
closeIntoHistory(st, i, reason, tx, cfg) == expire(st, i, cfg)
\* close returns None, and does nothing, when the id is in neither queue.
\* The task spawned at app.rs:590 builds the future of send(Input::Closed)
\* and drops it without polling it, so nothing is sent there; the task
\* spawned at app.rs:598 sends Input::Dismissed(id).
close(st, i, reason, tx, cfg) ==
    IF ~HasId(st.cards, i) /\ ~HasId(st.hidden, i) THEN st
    ELSE LET inCards == HasId(st.cards, i)
             cards1 == IF inCards THEN RemoveAt(st.cards, Position(st.cards, i))
                       ELSE st.cards
             cards2 == group_notifications(sort_notifications(cards1), cfg)
         IN  [st EXCEPT
                !.cards = cards2,
                !.hidden = IF inCards THEN @ ELSE RemoveAt(@, Position(@, i)),
                !.tasks = IF tx THEN Spawn(@, Task("SendDismissed", i, "", reason))
                          ELSE @,
                !.active_surface = IF cards2 = << >> THEN FALSE ELSE @]

\* The notification activate_notification and close look up: cards first.
Lookup(st, i) ==
    IF HasId(st.cards, i) THEN st.cards[Position(st.cards, i) + 1]
    ELSE st.hidden[Position(st.hidden, i) + 1]

\* maybe_action of activate_notification.
maybe_actionFirst(n, action) ==
    IF n.actions # << >> THEN n.actions[1] ELSE NoAction
maybe_action(n, action) ==
    IF action # NoAction /\ action \in Range(n.actions) THEN action
    ELSE IF "default" \in Range(n.actions) THEN "default"
    ELSE IF n.actions # << >> THEN n.actions[1]
    ELSE NoAction

activate_notification(st, i, action, tx, cfg) ==
    IF ~tx \/ (~HasId(st.cards, i) /\ ~HasId(st.hidden, i)) THEN st
    ELSE LET chosen == maybe_action(Lookup(st, i), action)
         IN  IF chosen = NoAction THEN close(st, i, Dismissed, tx, cfg)
             ELSE [st EXCEPT !.tasks = Spawn(@, Task("Activation", i, chosen, 0))]

(***************************************************************************)
(* The pipeline: client and user requests, the driver                      *)
(* (Machine<Waiting>::exec), the application's update, and the tasks.      *)
(***************************************************************************)
notStore == <<limiter, next_id, conns, now, clock, applet_out, ret, last,
              probe, win, config, stepVars>>

\* The application's update installs the state a store method returned.
Install(st, op) ==
    /\ cards' = st.cards
    /\ hidden' = st.hidden
    /\ active_surface' = st.active_surface
    /\ tasks' = st.tasks
    /\ lastop' = op

Op(op, id, q, n) ==
    [op |-> op, id |-> id, found |-> HasId(q, id),
     pos |-> IF HasId(q, id) THEN Position(q, id) ELSE 0,
     len |-> Len(q), hlen |-> Len(hidden), n |-> n, action |-> NoAction]

\* Notifications::close_notification(id).
CloseNotificationCall(id) ==
    /\ Len(chan) < CHANNEL_CAPACITY
    /\ chan' = Append(chan, [kind |-> "CloseNotification", id |-> id])
    /\ ncalls' = ncalls + 1
    /\ UNCHANGED <<limiter, next_id, conns, applet_out, ret, notIngress>>

\* SystemTime::now() moves on.
ClockTick(max) ==
    /\ clock < max
    /\ clock' = clock + 1
    /\ UNCHANGED <<ingressVars, now, rlHist, appVars, stepVars>>

\* ---- the driver: one iteration of the loop of Machine<Waiting>::exec ----
Emit(sig, id, reason, action, cause) ==
    [sig |-> sig, id |-> id, reason |-> reason, action |-> action,
     cause |-> cause]

DriverForward(kind) ==
    /\ chan # << >>
    /\ Head(chan).kind = kind
    /\ Len(events) < EVENT_CAPACITY
    /\ chan' = Tail(chan)
    /\ events' = Append(events, Head(chan))

DriverNotification ==
    /\ DriverForward("Notification")
    /\ UNCHANGED <<notStore, ncalls, cards, hidden, active_surface,
                   notifications_tx, tasks, signals, lastop>>

DriverReplace ==
    /\ DriverForward("Replace")
    /\ UNCHANGED <<notStore, ncalls, cards, hidden, active_surface,
                   notifications_tx, tasks, signals, lastop>>

\* Forwards the event and emits NotificationClosed(id, 3) itself.
DriverCloseNotification ==
    /\ DriverForward("CloseNotification")
    /\ signals' = Append(signals,
                    Emit("NotificationClosed", Head(chan).id,
                         CloseNotification, "", 0))
    /\ UNCHANGED <<notStore, ncalls, cards, hidden, active_surface,
                   notifications_tx, tasks, lastop>>

DriverDismissed ==
    /\ chan # << >>
    /\ Head(chan).kind = "Dismissed"
    /\ chan' = Tail(chan)
    /\ signals' = Append(signals,
                    Emit("NotificationClosed", Head(chan).id, Dismissed, "",
                         Head(chan).cause))
    /\ UNCHANGED <<notStore, ncalls, events, cards, hidden, active_surface,
                   notifications_tx, tasks, lastop>>

DriverActivated ==
    /\ chan # << >>
    /\ Head(chan).kind = "Activated"
    /\ chan' = Tail(chan)
    /\ signals' = signals \o
                    <<Emit("ActivationToken", Head(chan).id, 0, "", 0),
                      Emit("ActionInvoked", Head(chan).id, 0,
                           Head(chan).action, 0)>>
    /\ UNCHANGED <<notStore, ncalls, events, cards, hidden, active_surface,
                   notifications_tx, tasks, lastop>>

\* The handler of Input::Closed(id, reason).  No task of the program sends
\* this input (see close), so no behaviour takes this step.
DriverClosed ==
    /\ chan # << >>
    /\ Head(chan).kind = "Closed"
    /\ chan' = Tail(chan)
    /\ signals' = Append(signals,
                    Emit("NotificationClosed", Head(chan).id,
                         Head(chan).reason, "", Head(chan).reason))
    /\ UNCHANGED <<notStore, ncalls, events, cards, hidden, active_surface,
                   notifications_tx, tasks, lastop>>

\* ---- the application: CosmicNotifications::update, one message ----
notUpdate == <<notStore, ncalls, chan, signals>>

\* Message::Notification(Event::Ready(tx)).
AppReady ==
    /\ events # << >> /\ Head(events).kind = "Ready"
    /\ events' = Tail(events)
    /\ notifications_tx' = TRUE
    /\ UNCHANGED <<notUpdate, cards, hidden, active_surface, tasks, lastop>>

\* Message::Notification(Event::Notification(n)).
AppNotification ==
    /\ events # << >> /\ Head(events).kind = "Notification"
    /\ events' = Tail(events)
    /\ LET n == Head(events).n
       IN  Install(push_notification(AppState, n, config),
                   Op("push", n.id, cards, n))
    /\ UNCHANGED <<notUpdate, notifications_tx>>

\* Message::Notification(Event::Replace(n)).
AppReplace ==
    /\ events # << >> /\ Head(events).kind = "Replace"
    /\ events' = Tail(events)
    /\ LET n == Head(events).n
       IN  Install(replace_notification(AppState, n, config),
                   Op("replace", n.id, cards, n))
    /\ UNCHANGED <<notUpdate, notifications_tx>>

\* The notification close(i, ..) removes, if any.
Removed(i) ==
    IF HasId(cards, i) \/ HasId(hidden, i) THEN Lookup(AppState, i)
    ELSE NoNotification

\* Message::Notification(Event::CloseNotification(id)).
AppCloseNotification ==
    /\ events # << >> /\ Head(events).kind = "CloseNotification"
    /\ events' = Tail(events)
    /\ LET i == Head(events).id
       IN  Install(close(AppState, i, CloseNotification, notifications_tx,
                         config),
                   Op("close", i, cards \o hidden, Removed(i)))
    /\ UNCHANGED <<notUpdate, notifications_tx>>

\* Message::Dismissed(id), from the close button of a card on the surface.
UserDismissed(i) ==
    /\ active_surface /\ HasId(cards, i)
    /\ ncalls' = ncalls + 1
    /\ Install(close(AppState, i, Dismissed, notifications_tx, config),
               Op("close", i, cards \o hidden, Removed(i)))
    /\ UNCHANGED <<notStore, chan, signals, events, notifications_tx>>

\* Message::Dismissed(id), the result of an activation future.
AppDismissed(i) ==
    /\ BagIn(Task("Message", i, "", 0), tasks)
    /\ LET st == [AppState EXCEPT !.tasks = Done(@, Task("Message", i, "", 0))]
       IN  Install(close(st, i, Dismissed, notifications_tx, config),
                   Op("close", i, cards \o hidden, Removed(i)))
    /\ UNCHANGED <<notUpdate, events, notifications_tx>>

\* Message::Timeout(id): the sleep of a timer task, of d ms, is over.
AppTimeout(i, d) ==
    /\ BagIn(Task("Timer", i, "", d), tasks)
    /\ LET st == [AppState EXCEPT !.tasks = Done(@, Task("Timer", i, "", d))]
           ex == expire(st, i, config)
       IN  Install([ex EXCEPT !.active_surface =
                                  IF ex.cards = << >> THEN FALSE ELSE @],
                   Op("expire", i, cards,
                      IF HasId(cards, i) THEN cards[Position(cards, i) + 1]
                      ELSE NoNotification))
    /\ UNCHANGED <<notUpdate, events, notifications_tx>>

\* Message::ActivateNotification(id) (a click on the card, no action) or
\* Message::ActionClicked(id, action) (a click on an action button):
\* request_activation asks the compositor for a token.
UserActivate(i, action) ==
    /\ active_surface /\ HasId(cards, i)
    /\ action = NoAction \/ action \in Range(cards[Position(cards, i) + 1].actions)
    /\ ncalls' = ncalls + 1
    /\ tasks' = Spawn(tasks, Task("Token", i, action, 0))
    /\ UNCHANGED <<notStore, chan, signals, events, cards, hidden,
                   active_surface, notifications_tx, lastop>>

\* Message::ActivationToken(token, id, action); the request can fail.
AppActivationToken(i, action, granted) ==
    /\ BagIn(Task("Token", i, action, 0), tasks)
    /\ LET st == [AppState EXCEPT
                    !.tasks = Done(@, Task("Token", i, action, 0))]
       IN  Install(IF granted
                   THEN activate_notification(st, i, action, notifications_tx,
                                              config)
                   ELSE st,
                   [Op(IF granted THEN "activate" ELSE "no_token", i,
                       cards \o hidden, Removed(i))
                      EXCEPT !.action = action])
    /\ UNCHANGED <<notUpdate, events, notifications_tx>>

\* ---- the tasks the application spawned ----
\* tokio::spawn(async move { sender.send(Input::Dismissed(id)).await }).
SendDismissed(i, reason) ==
    /\ BagIn(Task("SendDismissed", i, "", reason), tasks)
    /\ Len(chan) < CHANNEL_CAPACITY
    /\ chan' = Append(chan, [kind |-> "Dismissed", id |-> i, cause |-> reason])
    /\ tasks' = Done(tasks, Task("SendDismissed", i, "", reason))
    /\ UNCHANGED <<notStore, ncalls, signals, events, cards, hidden,
                   active_surface, notifications_tx, lastop>>

\* The future of activate_notification: send Input::Activated, then hand
\* Message::Dismissed(id) to update.
SendActivated(i, action) ==
    /\ BagIn(Task("Activation", i, action, 0), tasks)
    /\ Len(chan) < CHANNEL_CAPACITY
    /\ chan' = Append(chan, [kind |-> "Activated", id |-> i, action |-> action])
    /\ tasks' = Spawn(Done(tasks, Task("Activation", i, action, 0)),
                      Task("Message", i, "", 0))
    /\ UNCHANGED <<notStore, ncalls, signals, events, cards, hidden,
                   active_surface, notifications_tx, lastop>>

(***************************************************************************)
(* Specification SpecNotify: Notify calls against an ingress object that   *)
(* has already served traffic.  The initial states are states the object   *)
(* reaches from construction: the table holds what earlier accepted calls  *)
(* left in it, and the counter is past every id already handed out.        *)
(***************************************************************************)
MaxNotifyCalls == 2

NotifyApps == {"a", Fresh}
NotifyRids == {0, 2}
ConnSeqs == {<< >>, <<1>>, <<1, 2>>}

\* Counts app "a" can have in its window after earlier accepted calls.
PriorCounts == {0, 1, MAX_PER_MINUTE - 1, MAX_PER_MINUTE}
\* Number of other applications already in the table.
PriorOthers == {0, MAX_APPS - 1}

PriorLimiter(c, k) ==
    LET own == IF c = 0 THEN RateLimiterNew
               ELSE PutEntry(RateLimiterNew, "a", [start |-> 0, count |-> c])
    IN  AddFresh(own, k, 0)

InitNotify ==
    /\ now = 0
    /\ clock = 0
    /\ \E c \in PriorCounts, k \in PriorOthers :
          /\ limiter = PriorLimiter(c, k)
          /\ next_id \in {1 + c + k,
                          CLEANUP_INTERVAL * (((c + k) \div CLEANUP_INTERVAL) + 1)}
    /\ conns \in ConnSeqs
    /\ chan = << >>
    /\ applet_out = << >>
    /\ ret = [NoRet EXCEPT !.prev_new = next_id - 1]
    /\ ncalls = 0
    /\ last = NoCall
    /\ probe = [start |-> 0, n |-> 0]
    /\ win = [a \in RLApps |-> [start |-> 0 - 1, n |-> 0]]
    /\ InitIdle
    /\ InitApp

NotifyCall ==
    /\ ncalls < MaxNotifyCalls
    /\ \E app \in NotifyApps, rid \in NotifyRids, tr \in BOOLEAN :
          \E oc \in MirrorChoices(tr) :
             Notify(app, rid, 1, 0, tr, << >>, BaseSize, oc)

NotifyTick ==
    /\ \E d \in TickSteps : now + d <= MaxTime /\ now' = now + d
    /\ UNCHANGED <<ingressVars, clock, rlHist, appVars, stepVars>>

NextNotify == NotifyCall \/ NotifyTick

SpecNotify == InitNotify /\ [][NextNotify]_vars

\* C4: a Notify call with replaces_id = 0 that the rate limiter denies
\* returns 1 and sends no command to the channel, does not advance the id
\* counter, and mirrors no signal to (and drops none of) the applet
\* connections.
C4_DeniedNotifyHasNoEffect ==
    [][(ret'.seq # ret.seq /\ ret'.rid = 0 /\ ret'.denied)
         => /\ ret'.id = DUMMY_ID
            /\ chan' = chan
            /\ next_id' = next_id
            /\ applet_out' = applet_out
            /\ conns' = conns]_vars

\* A non-transient Notify(replaces_id = 0) was denied while applet
\* connections were registered and earlier calls had been accepted.
C4_Witness ==
    /\ ret.seq = 2
    /\ ret.denied
    /\ ret.rid = 0
    /\ ~ret.transient
    /\ ret.id = DUMMY_ID
    /\ Len(conns) = 2
    /\ Len(chan) = 1

(***************************************************************************)
(* Specification Spec: the daemon from startup, with one client            *)
(* application and the user at the surface.                                *)
(***************************************************************************)
MaxCalls == 3
MaxClock == 1

ClientApps == {"a"}
ClientRids == {0, 1}
ClientTimeouts == {0, 1000}
ClientActions == {<< >>, <<"default">>}
CloseIds == {1, 2}

Init ==
    /\ limiter = RateLimiterNew
    /\ next_id = 1
    /\ conns = << >>
    /\ chan = << >>
    /\ now = 0
    /\ clock = 0
    /\ applet_out = << >>
    /\ ret = NoRet
    /\ ncalls = 0
    /\ last = NoCall
    /\ probe = [start |-> 0, n |-> 0]
    /\ win = [a \in RLApps |-> [start |-> 0 - 1, n |-> 0]]
    /\ InitIdle
    /\ InitApp

ClientNotify ==
    /\ ncalls < MaxCalls
    /\ \E app \in ClientApps, rid \in ClientRids, tmo \in ClientTimeouts,
          acts \in ClientActions :
          Notify(app, rid, 1, tmo, FALSE, acts, BaseSize, << >>)

ClientClose ==
    /\ ncalls < MaxCalls
    /\ \E i \in CloseIds : CloseNotificationCall(i)

User ==
    /\ ncalls < MaxCalls
    /\ \E i \in CloseIds :
          \/ UserDismissed(i)
          \/ \E action \in {NoAction, "default"} : UserActivate(i, action)

Driver ==
    \/ DriverNotification
    \/ DriverReplace
    \/ DriverCloseNotification
    \/ DriverDismissed
    \/ DriverActivated

Update ==
    \/ AppReady
    \/ AppNotification
    \/ AppReplace
    \/ AppCloseNotification
    \/ \E i \in CloseIds :
          \/ AppDismissed(i)
          \/ \E d \in ClientTimeouts : AppTimeout(i, d)
          \/ \E action \in {NoAction, "default"}, granted \in BOOLEAN :
                AppActivationToken(i, action, granted)

Tasks ==
    \E i \in CloseIds :
       \/ \E reason \in {Dismissed, CloseNotification} : SendDismissed(i, reason)
       \/ SendActivated(i, "default")

Next ==
    \/ ClientNotify
    \/ ClientClose
    \/ User
    \/ ClockTick(MaxClock)
    \/ Driver
    \/ Update
    \/ Tasks

Spec == Init /\ [][Next]_vars

(***************************************************************************)
(* Claims about the pipeline (checked under Spec)                          *)
(***************************************************************************)
\* Nothing is in flight: both channels are empty and no task is pending.
Drained == chan = << >> /\ events = << >> /\ tasks = EmptyBag

Closed(k, i) == signals[k].sig = "NotificationClosed" /\ signals[k].id = i

\* C1: when the timeout of a visible notification elapses, the notification
\* leaves the visible queue and NotificationClosed(id, 1) is emitted: once
\* the pipeline has drained after the expiry, the signal is in the log.
C1_ExpiryEmitsClosed ==
    (lastop.op = "expire" /\ lastop.found /\ Drained)
        => /\ ~HasId(cards, lastop.id)
           /\ \E k \in 1..Len(signals) :
                 Closed(k, lastop.id) /\ signals[k].reason = Expired

\* C2: every NotificationClosed signal that results from a close(id, reason)
\* which removed a notification carries that reason.
C2_ClosedCarriesReason ==
    \A k \in 1..Len(signals) :
       (signals[k].sig = "NotificationClosed" /\ signals[k].cause # 0)
           => signals[k].reason = signals[k].cause

\* C3: for every id, ActivationToken comes before ActionInvoked, and no
\* NotificationClosed for the id comes before either of them.
C3_SignalOrder ==
    \A k \in 1..Len(signals) :
       /\ signals[k].sig = "ActionInvoked"
             => \E j \in 1..(k - 1) : /\ signals[j].sig = "ActivationToken"
                                      /\ signals[j].id = signals[k].id
       /\ signals[k].sig \in {"ActivationToken", "ActionInvoked"}
             => \A j \in 1..(k - 1) : ~Closed(j, signals[k].id)

\* C5: no accepted Notify call with replaces_id = 0 returns the sentinel 1;
\* the ids of new notifications start at 2.
C5_SentinelReserved ==
    (ret.seq > 0 /\ ret.rid = 0 /\ ~ret.denied) => ret.id > DUMMY_ID

\* C8: Notify with replaces_id = r # 0 returns r, and a replacement that
\* finds id r in the visible queue overwrites it in place: same length, same
\* position, new content, and exactly one entry with id r.
C8_ReplaceInPlace ==
    /\ (ret.seq > 0 /\ ret.rid # 0) => ret.id = ret.rid
    /\ (lastop.op = "replace" /\ lastop.found)
          => /\ Len(cards) = lastop.len
             /\ cards[lastop.pos + 1] = lastop.n
             /\ Cardinality({k \in 1..Len(cards) : cards[k].id = lastop.id}) = 1

\* C9: a visible notification whose expire_timeout is 0 is never moved to
\* the hidden history by a timeout.
C9_PersistentNeverExpires ==
    (lastop.op = "expire" /\ lastop.found) => lastop.n.expire_timeout # 0

(***************************************************************************)
(* Specification SpecDelay: one notification, of any urgency and           *)
(* expire_timeout, pushed under any configuration of the timeout caps.     *)
(***************************************************************************)
MaxDelayCalls == 1

DelayTimeouts == {0 - 1, 0, 2000, 3000, 4000, 6000}
DelayUrgencies == 0..3
DelayCaps == {NoCap, 0, 3000, 5000}
\* Every delay TimerDelay can produce from these.
Delays == (DelayTimeouts \cup DelayCaps \cup {DEFAULT_TIMEOUT}) \ {0 - 1}

InitDelay ==
    /\ limiter = RateLimiterNew
    /\ next_id = 1
    /\ conns = << >>
    /\ chan = << >>
    /\ now = 0
    /\ clock = 0
    /\ applet_out = << >>
    /\ ret = NoRet
    /\ ncalls = 0
    /\ last = NoCall
    /\ probe = [start |-> 0, n |-> 0]
    /\ win = [a \in RLApps |-> [start |-> 0 - 1, n |-> 0]]
    /\ InitIdle
    /\ events = <<[kind |-> "Ready"]>>
    /\ cards = << >>
    /\ hidden = << >>
    /\ active_surface = FALSE
    /\ notifications_tx = FALSE
    /\ \E u \in DelayCaps, m \in DelayCaps, l \in DelayCaps :
          config = [DefaultConfig EXCEPT !.max_timeout_urgent = u,
                                         !.max_timeout_normal = m,
                                         !.max_timeout_low = l]
    /\ tasks = EmptyBag
    /\ signals = << >>
    /\ lastop = NoOp

DelayNotify ==
    /\ ncalls < MaxDelayCalls
    /\ \E urg \in DelayUrgencies, tmo \in DelayTimeouts :
          Notify("a", 0, urg, tmo, FALSE, << >>, BaseSize, << >>)

DelayTimeout == \E i \in CloseIds, d \in Delays : AppTimeout(i, d)

NextDelay ==
    \/ DelayNotify
    \/ DriverNotification
    \/ AppReady
    \/ AppNotification
    \/ DelayTimeout

SpecDelay == InitDelay /\ [][NextDelay]_vars

\* The cap configured for the urgency of n: urgent for 2, normal for 1, low
\* for every other value.
CapFor(n) ==
    IF n.urgency = 2 THEN config.max_timeout_urgent
    ELSE IF n.urgency = 1 THEN config.max_timeout_normal
    ELSE config.max_timeout_low

\* The timers pending for id i; exactly one timer, of d ms, is pending.
TimersOf(i) == {t \in BagToSet(tasks) : t.kind = "Timer" /\ t.id = i}
OneTimer(i, d) ==
    /\ TimersOf(i) = {Task("Timer", i, "", d)}
    /\ CopiesIn(Task("Timer", i, "", d), tasks) = 1

CloseHandled(i) ==
    /\ events # << >>
    /\ Head(events).kind = "CloseNotification"
    /\ Head(events).id = i
    /\ events' = Tail(events)

\* The step in which update handles Message::Timeout(i).
TimeoutHandled(i) ==
    /\ \E d \in ClientTimeouts :
          /\ BagIn(Task("Timer", i, "", d), tasks)
          /\ CopiesIn(Task("Timer", i, "", d), tasks')
                = CopiesIn(Task("Timer", i, "", d), tasks) - 1
    /\ lastop'.op = "expire"
    /\ lastop'.id = i

\* C11: of a CloseNotification(id) and the expiry timer of the same
\* notification, the one handled second is a no-op: with the notification
\* gone from the visible queue it changes neither queue and starts nothing
\* that leads to a NotificationClosed signal.
C11_SecondIsNoOp ==
    [][\A i \in CloseIds :
          /\ (CloseHandled(i) /\ ~HasId(cards, i))
                => (cards' = cards /\ hidden' = hidden /\ tasks' = tasks)
          /\ (TimeoutHandled(i) /\ ~HasId(cards, i))
                => (cards' = cards /\ hidden' = hidden)]_vars

(***************************************************************************)
(* Specification SpecHistory: notifications of different sizes, transient  *)
(* or not, that expire into the hidden history, and CloseNotification      *)
(* calls that remove from it.                                              *)
(***************************************************************************)
MaxHistoryCalls == 4

HalfBudget == MAX_HIDDEN_MEMORY \div 2
HistorySizes == {BaseSize, HalfBudget, MAX_HIDDEN_MEMORY + 1}
HistoryIds == 1..MaxHistoryCalls

HistoryNotify ==
    /\ ncalls < MaxHistoryCalls
    /\ \E tr \in BOOLEAN, sz \in HistorySizes :
          Notify("a", 0, 1, 1000, tr, << >>, sz, << >>)

HistoryClose ==
    /\ ncalls < MaxHistoryCalls
    /\ \E i \in HistoryIds : CloseNotificationCall(i)

HistoryTimeout == \E i \in HistoryIds : AppTimeout(i, 1000)

HistorySend == \E i \in HistoryIds : SendDismissed(i, CloseNotification)

NextHistory ==
    \/ HistoryNotify
    \/ HistoryClose
    \/ DriverNotification
    \/ DriverCloseNotification
    \/ DriverDismissed
    \/ AppReady
    \/ AppNotification
    \/ AppCloseNotification
    \/ HistoryTimeout
    \/ HistorySend

SpecHistory == Init /\ [][NextHistory]_vars

\* C12: a transient notification is never added to the hidden history (the
\* content of every GetHistory reply).
C12_NoTransientInHistory ==
    \A k \in 1..Len(hidden) : ~hidden[k].transient

(***************************************************************************)
(* Mirroring to the applet (checked under SpecNotify)                      *)
(***************************************************************************)
\* C13: an accepted Notify call mirrors the applet Notify signal only for a
\* non-transient notification.  For a transient one nothing is attempted or
\* sent and the connection list is untouched; for a non-transient one the
\* signal is attempted on every connection whose interface lookup succeeded,
\* in order, and what is sent goes to attempted connections only.
C13_MirrorOnlyNonTransient ==
    [][(ret'.seq # ret.seq /\ ~ret'.denied)
         => IF ret'.transient
            THEN /\ ret'.attempted = << >>
                 /\ applet_out' = applet_out
                 /\ conns' = conns
            ELSE LET ok == {c \in Range(conns) : ret'.oc[c] # "lookup_failed"}
                     new == SubSeq(applet_out', Len(applet_out) + 1,
                                   Len(applet_out'))
                 IN  /\ Range(ret'.attempted) = ok
                     /\ Len(ret'.attempted) = Cardinality(ok)
                     /\ SubSeq(applet_out', 1, Len(applet_out)) = applet_out
                     /\ \A k \in 1..Len(new) :
                           /\ new[k].id = ret'.id
                           /\ new[k].conn \in ok
                           /\ ret'.oc[new[k].conn] = "sent"]_vars

\* A non-transient notification was accepted with two applet connections
\* registered: the lookup failed on the first, the signal went to the second.
C13_Witness ==
    /\ ret.seq > 0
    /\ ~ret.denied
    /\ ~ret.transient
    /\ DOMAIN ret.oc = {1, 2}
    /\ ret.oc[1] = "lookup_failed"
    /\ ret.oc[2] = "sent"
    /\ ret.attempted = <<2>>
    /\ conns = <<2>>
    /\ applet_out # << >>
    /\ applet_out[Len(applet_out)] = [conn |-> 2, id |-> ret.id]

(***************************************************************************)
(* Specification SpecStore: two client applications sending notifications  *)
(* of different urgency at different times, and the user dismissing cards. *)
(***************************************************************************)
MaxStoreCalls == 4
MaxStoreClock == 2

StoreApps == {"a", "b"}
StoreUrgencies == {1, 2}
StoreIds == 1..MaxStoreCalls

StoreNotify ==
    /\ ncalls < MaxStoreCalls
    /\ \E app \in StoreApps, urg \in StoreUrgencies :
          Notify(app, 0, urg, 0, FALSE, << >>, BaseSize, << >>)

StoreDismiss ==
    /\ ncalls < MaxStoreCalls
    /\ \E i \in StoreIds : UserDismissed(i)

StoreSend == \E i \in StoreIds : SendDismissed(i, Dismissed)

NextStore ==
    \/ StoreNotify
    \/ StoreDismiss
    \/ ClockTick(MaxStoreClock)
    \/ DriverNotification
    \/ DriverDismissed
    \/ AppReady
    \/ AppNotification
    \/ StoreSend

SpecStore == Init /\ [][NextStore]_vars

\* Number of entries of q sent by app.
CountApp(q, app) == Cardinality({k \in 1..Len(q) : q[k].app_name = app})

\* C14: the visible queue holds at most max_notifications entries.
C14_AtMostMaxNotifications == Len(cards) <= config.max_notifications

\* C15: when max_per_app > 0, after a push no app_name occurs more than
\* max_per_app times in the visible queue.
C15_AtMostMaxPerApp ==
    (config.max_per_app > 0 /\ lastop.op = "push")
        => \A app \in StoreApps : CountApp(cards, app) <= config.max_per_app

\* C16: after a push the visible queue is sorted by urgency descending and,
\* among equal urgency, by time ascending.
C16_SortedUrgencyDescTimeAsc ==
    lastop.op = "push"
        => \A j \in 1..Len(cards), k \in 1..Len(cards) :
              j < k => \/ cards[j].urgency > cards[k].urgency
                       \/ /\ cards[j].urgency = cards[k].urgency
                          /\ cards[j].time <= cards[k].time

(***************************************************************************)
(* Ids, ties and push-then-close (checked under Spec)                      *)
(***************************************************************************)
\* C17: no two entries of the visible queue have the same id.
C17_UniqueIds ==
    \A j \in 1..Len(cards), k \in 1..Len(cards) :
       j # k => cards[j].id # cards[k].id

\* The step in which update handles Event::Notification(n), a push.
PushHandled ==
    /\ events # << >>
    /\ Head(events).kind = "Notification"
    /\ events' = Tail(events)

\* C18: a push keeps every notification of the visible queue that has the
\* urgency and the time of the pushed one, next to the pushed one, and such
\* notifications stand in the order of their ids.
C18_TiesAreKept ==
    [][PushHandled
         => LET n == Head(events).n
                tie(m) == m.urgency = n.urgency /\ m.time = n.time
            IN  /\ n \in Range(cards')
                /\ \A k \in 1..Len(cards) :
                      tie(cards[k]) => cards[k] \in Range(cards')
                /\ \A j \in 1..Len(cards'), k \in 1..Len(cards') :
                      (j < k /\ tie(cards'[j]) /\ tie(cards'[k]))
                          => cards'[j].id < cards'[k].id]_vars

\* C20: starting from an empty store, a push of n followed by a close of
\* n.id leaves the visible queue and the hidden history empty.
C20_PushThenCloseIsEmpty ==
    [][(/\ lastop.op = "push"
        /\ lastop.len = 0
        /\ hidden = << >>
        /\ lastop'.op = "close"
        /\ lastop'.id = lastop.id)
         => (cards' = << >> /\ hidden' = << >>)]_vars

\* The only notification ever sent, a persistent one, was pushed into the
\* empty store and then closed: both queues are empty again.
C20_Witness ==
    /\ ret.seq = 1
    /\ ret.rid = 0
    /\ lastop.op = "close"
    /\ lastop.found
    /\ lastop.len = 1
    /\ lastop.n.id = ret.id
    /\ lastop.n.expire_timeout = 0
    /\ cards = << >>
    /\ hidden = << >>

(***************************************************************************)
(* The memory budget of the history (checked under SpecHistory)            *)
(***************************************************************************)
\* Sum of estimated_size over q.
RECURSIVE SumSize(_)
SumSize(q) == IF q = << >> THEN 0 ELSE Head(q).size + SumSize(Tail(q))

\* The longest prefix of q whose sizes sum to at most the budget.
LongestFit(q) ==
    LET fits == {j \in 0..Len(q) : SumSize(SubSeq(q, 1, j)) <= MAX_HIDDEN_MEMORY}
    IN  SubSeq(q, 1, CHOOSE j \in fits : \A k \in fits : k <= j)

\* C19: the sizes of the hidden history never sum to more than 50 MiB, and an
\* expiry leaves in the history exactly the longest newest-first prefix, of
\* the expired notification followed by the old history, that fits.
C19_HistoryWithinBudget ==
    [][/\ SumSize(hidden') <= MAX_HIDDEN_MEMORY
       /\ \A i \in HistoryIds :
             (TimeoutHandled(i) /\ lastop'.found)
                 => hidden' = LongestFit(<<lastop'.n>> \o hidden)]_vars

\* An expiry has just put a small notification in front of a history of two
\* entries of half the budget each, and the older of the two was dropped.
C19_Witness ==
    /\ lastop.op = "expire"
    /\ lastop.found
    /\ lastop.hlen = 2
    /\ Len(hidden) = 2
    /\ hidden[1] = lastop.n
    /\ hidden[1].size = BaseSize
    /\ hidden[2].size = HalfBudget

(***************************************************************************)
(* Claims about the applet connection list and the rate limiter as Notify  *)
(* uses them (checked under SpecNotify and SpecRL)                         *)
(***************************************************************************)
\* The position of connection c in the list cs.
IndexOf(cs, c) == CHOOSE k \in 1..Len(cs) : cs[k] = c

\* C23: after Notify mirrors a non-transient notification the connection
\* list holds exactly the previously listed connections whose interface
\* lookup completed, in their original order: a connection whose emission
\* failed is kept, one whose lookup failed is removed.
C23_ConnsAfterMirror ==
    [][(ret'.seq # ret.seq /\ ~ret'.denied /\ ~ret'.transient)
         => /\ Range(conns') =
                  {c \in Range(conns) : ret'.oc[c] # "lookup_failed"}
            /\ Len(conns') = Cardinality(Range(conns'))
            /\ \A i, j \in 1..Len(conns') :
                  i < j => IndexOf(conns, conns'[i]) < IndexOf(conns, conns'[j])
            /\ \A c \in Range(conns) :
                  ret'.oc[c] = "emit_failed" => c \in Range(conns')]_vars

\* Of two connections the one whose emission failed is kept and the one whose
\* lookup failed is gone.
C23_Witness ==
    /\ ret.seq > 0
    /\ ~ret.denied
    /\ ~ret.transient
    /\ DOMAIN ret.oc = {1, 2}
    /\ ret.oc[1] = "emit_failed"
    /\ ret.oc[2] = "lookup_failed"
    /\ conns = <<1>>

\* C24: an applet connection on which the emission of the mirrored signal
\* fails is kept after the first failure and evicted after the second: when
\* the emission fails on a connection in two successive mirroring calls, the
\* connection is no longer listed after the second.
C24_EvictedOnSecondFailure ==
    [][\A c \in Range(conns) :
          (/\ ret'.seq # ret.seq /\ ~ret'.denied /\ ~ret'.transient
           /\ ~ret.denied /\ ~ret.transient /\ ret.seq > 0
           /\ c \in DOMAIN ret.oc /\ ret.oc[c] = "emit_failed"
           /\ ret'.oc[c] = "emit_failed")
             => c \notin Range(conns')]_vars

\* C28: a Notify call with replaces_id # 0 is never rejected by the rate
\* limiter and changes no app's window start or count: every entry of the
\* table after the call is an entry the table had before, unchanged, and the
\* only entries that are gone are entries whose window had run out (the
\* periodic cleanup at the head of Notify).
C28_ReplaceBypassesLimiter ==
    [][(ret'.seq # ret.seq /\ ret'.rid # 0)
         => /\ ~ret'.denied
            /\ ret'.id = ret'.rid
            /\ \A a \in DOMAIN limiter'.limits :
                  /\ a \in DOMAIN limiter.limits
                  /\ limiter'.limits[a] = limiter.limits[a]
            /\ \A a \in DOMAIN limiter.limits \ DOMAIN limiter'.limits :
                  now - limiter.limits[a].start > WINDOW
            /\ limiter'.others \subseteq limiter.others
            /\ \A e \in limiter.others \ limiter'.others :
                  now - e.start > WINDOW]_vars

\* A replacement from app "a" was accepted while "a" had used up its window
\* and the table was full.
C28_Witness ==
    /\ ret.seq > 0
    /\ ret.rid # 0
    /\ ~ret.denied
    /\ "a" \in DOMAIN limiter.limits
    /\ limiter.limits["a"].count = MAX_PER_MINUTE
    /\ now - limiter.limits["a"].start <= WINDOW
    /\ LimitsLen(limiter) = MAX_APPS
    /\ chan # << >>
    /\ chan[Len(chan)].kind = "Replace"
    /\ chan[Len(chan)].n.app_name = "a"

\* C29: when the table is still full after cleanup, only apps without an
\* entry are rejected for that reason: a call from an app that has an entry
\* with fewer than 60 accepts in its current window is accepted.
C29_KnownAppStillAccepted ==
    (/\ last.app # "none" /\ last.had
     /\ last.at - last.start <= WINDOW
     /\ last.count < MAX_PER_MINUTE) => last.ok

\* C30: the rate-limit table never holds more than 1000 entries.
C30_TableBounded == LimitsLen(limiter) <= MAX_APPS

\* The table is full and a call from an app without an entry has just been
\* rejected for that reason.
C30_Witness ==
    /\ LimitsLen(limiter) = MAX_APPS
    /\ last.app = "a"
    /\ ~last.had
    /\ ~last.ok

(***************************************************************************)
(* The audio gate (cosmic-notifications-util/src/audio.rs).                *)
(*   A path is the sequence of its components.  The file system holds the  *)
(*   regular files Files, the directories above them, and one symbolic     *)
(*   link inside a sound directory that points outside.                    *)
(***************************************************************************)
SystemSounds == <<"usr", "share", "sounds">>
LocalSounds == <<"usr", "local", "share", "sounds">>
XdgSounds == <<"home", "u", ".data", "sounds">>
HomeSounds == <<"home", "u", ".local", "share", "sounds">>
SoundDirs == {SystemSounds, LocalSounds, XdgSounds, HomeSounds}

Files == {SystemSounds \o <<"bell.oga">>,
          HomeSounds \o <<"ding.wav">>,
          <<"etc", "passwd">>}
Dirs == UNION {{SubSeq(f, 1, k) : k \in 0..(Len(f) - 1)} : f \in Files}
LinkAt == SystemSounds \o <<"evil.oga">>
LinkTo == <<"etc", "passwd">>

NoPath == [ok |-> FALSE, path |-> << >>]

\* Path::canonicalize: resolves the components from the root, following the
\* symbolic link and "..", and fails on a component that does not exist or
\* that is looked up in something that is no directory.
RECURSIVE Resolve(_, _)
Resolve(done, rest) ==
    IF rest = << >> THEN [ok |-> TRUE, path |-> done]
    ELSE IF done \notin Dirs THEN NoPath
    ELSE IF Head(rest) = ".."
    THEN Resolve(IF done = << >> THEN << >>
                 ELSE SubSeq(done, 1, Len(done) - 1), Tail(rest))
    ELSE LET cand == Append(done, Head(rest))
         IN  IF cand = LinkAt THEN Resolve(LinkTo, Tail(rest))
             ELSE IF cand \in Files \cup Dirs THEN Resolve(cand, Tail(rest))
             ELSE NoPath

canonicalize(path) == Resolve(<< >>, path)

\* Path::exists: the path can be resolved, links followed.
exists(path) == canonicalize(path).ok

\* Path::starts_with: a prefix of whole components.
starts_with(path, base) ==
    /\ Len(base) <= Len(path)
    /\ SubSeq(path, 1, Len(base)) = base

is_allowed_sound_path(path) ==
    LET canonical == canonicalize(path)
    IN  /\ canonical.ok
        /\ \E dir \in SoundDirs :
              /\ canonicalize(dir).ok
              /\ starts_with(canonical.path, canonicalize(dir).path)

\* The two checks at the head of play_sound_file, in their order.
ValidateAllowlistFirst(path) ==
    IF ~is_allowed_sound_path(path) THEN "PathNotAllowed"
    ELSE IF ~exists(path) THEN "FileNotFound"
    ELSE "Ok"
Validate(path) ==
    IF ~exists(path) THEN "FileNotFound"
    ELSE IF ~is_allowed_sound_path(path) THEN "PathNotAllowed"
    ELSE "Ok"

\* ACTIVE_SOUNDS.compare_exchange(current, current + 1): the outcome and
\* the value of the counter afterwards.
fetch_add(active, current) == [ok |-> TRUE, value |-> active + 1]
compare_exchange(active, current) ==
    IF active = current THEN [ok |-> TRUE, value |-> current + 1]
    ELSE [ok |-> FALSE, value |-> active]

\* ACTIVE_SOUNDS.fetch_sub(1).
fetch_sub(active) == active - 1

\* The counter after a failed thread spawn.
KeepCountOnSpawnFailure(active) == active
OnSpawnFailure(active) == fetch_sub(active)

(***************************************************************************)
(* Specification SpecAudio: concurrent play_sound_file calls and the       *)
(* playback workers they start.                                            *)
(***************************************************************************)
MaxExiting == 1

SoundPaths == {SystemSounds \o <<"bell.oga">>,
               HomeSounds \o <<"ding.wav">>,
               SystemSounds \o <<"..", "..", "..", "etc", "passwd">>,
               SystemSounds \o <<"..", "..", "etc", "passwd">>,
               SystemSounds \o <<"evil.oga">>,
               SystemSounds \o <<"missing.oga">>,
               <<"tmp", "missing.wav">>}

notAudio == <<ingressVars, now, clock, rlHist, appVars, call, iface_lock,
              driver, gh, boot, util>>

RECURSIVE SumTo(_, _)
SumTo(f, k) == IF k < 0 THEN 0 ELSE f[k] + SumTo(f, k - 1)

\* The play_sound_file calls that are in the counter loop or at the spawn.
InFlight(a) ==
    a.load + SumTo(a.cas, MAX_CONCURRENT_SOUNDS - 1) + a.spawn + a.spawn_failed

\* play_sound_file(path) up to the counter loop: the existence check and the
\* allowlist check.
PlaySoundFile(path) ==
    /\ InFlight(audio) < NumCallers
    /\ audio' = [audio EXCEPT
                    !.load = IF Validate(path) = "Ok" THEN @ + 1 ELSE @,
                    !.last = [path |-> path, result |-> Validate(path)]]
    /\ UNCHANGED notAudio

\* let current = ACTIVE_SOUNDS.load(..); return Ok(()) at the cap.
Load ==
    /\ audio.load > 0
    /\ audio' = [audio EXCEPT
                    !.load = @ - 1,
                    !.cas = IF audio.active >= MAX_CONCURRENT_SOUNDS THEN @
                            ELSE [@ EXCEPT ![audio.active] = @ + 1],
                    !.last = NoSound]
    /\ UNCHANGED notAudio

\* ACTIVE_SOUNDS.compare_exchange(current, current + 1, ..): break or retry.
CompareExchange(current) ==
    /\ audio.cas[current] > 0
    /\ LET r == compare_exchange(audio.active, current)
       IN  audio' = [audio EXCEPT
                        !.active = r.value,
                        !.cas[current] = @ - 1,
                        !.spawn = IF r.ok THEN @ + 1 ELSE @,
                        !.load = IF r.ok THEN @ ELSE @ + 1,
                        !.last = NoSound]
    /\ UNCHANGED notAudio

\* thread::Builder::new().spawn(..): the worker starts, or the spawn fails.
SpawnWorker(spawned) ==
    /\ audio.spawn > 0
    /\ audio' = [audio EXCEPT
                    !.spawn = @ - 1,
                    !.playing = IF spawned THEN @ + 1 ELSE @,
                    !.spawn_failed = IF spawned THEN @ ELSE @ + 1,
                    !.last = NoSound]
    /\ UNCHANGED notAudio

\* if let Err(e) = spawn_result { ACTIVE_SOUNDS.fetch_sub(1, ..) }; Ok(()).
SpawnFailed ==
    /\ audio.spawn_failed > 0
    /\ audio' = [audio EXCEPT
                    !.active = OnSpawnFailure(@),
                    !.spawn_failed = @ - 1,
                    !.exits = @ \cup {"spawn_failed"},
                    !.last = NoSound]
    /\ UNCHANGED notAudio

\* The worker: play_sound_file_blocking returns Ok or Err, then
\* ACTIVE_SOUNDS.fetch_sub(1, ..).
WorkerDone(played) ==
    /\ audio.playing > 0
    /\ audio.exiting < MaxExiting
    /\ audio' = [audio EXCEPT
                    !.active = fetch_sub(@),
                    !.playing = @ - 1,
                    !.exiting = @ + 1,
                    !.exits = @ \cup {IF played THEN "played" ELSE "error"},
                    !.last = NoSound]
    /\ UNCHANGED notAudio

\* The worker logs its error, if any, and its thread ends.
WorkerExit ==
    /\ audio.exiting > 0
    /\ audio' = [audio EXCEPT !.exiting = @ - 1, !.last = NoSound]
    /\ UNCHANGED notAudio

NextAudio ==
    \/ \E path \in SoundPaths : PlaySoundFile(path)
    \/ Load
    \/ \E current \in 0..(MAX_CONCURRENT_SOUNDS - 1) : CompareExchange(current)
    \/ \E spawned \in BOOLEAN : SpawnWorker(spawned)
    \/ SpawnFailed
    \/ \E played \in BOOLEAN : WorkerDone(played)
    \/ WorkerExit

SpecAudio == Init /\ [][NextAudio]_vars

\* The calls that hold an increment of the counter and have not started
\* their worker yet.
Spawning == audio.spawn + audio.spawn_failed

\* C25 (as claimed): the counter never exceeds 4 and at most 4 playback
\* workers exist at any time.
C25_AtMostFourWorkersExist ==
    /\ audio.active <= MAX_CONCURRENT_SOUNDS
    /\ audio.playing + audio.exiting <= MAX_CONCURRENT_SOUNDS

\* C25 (amended): the counter never exceeds 4, and at most 4 workers are in
\* playback, that is started and not yet past their decrement of the counter.
C25_AtMostFourInPlayback ==
    /\ audio.active <= MAX_CONCURRENT_SOUNDS
    /\ audio.playing <= audio.active

\* Four workers are in playback, the counter is at the cap, and a fifth
\* worker that has already decremented the counter has not ended yet.
C25_Witness ==
    /\ audio.active = MAX_CONCURRENT_SOUNDS
    /\ audio.playing = MAX_CONCURRENT_SOUNDS
    /\ audio.exiting = 1

\* C26: every increment of the counter is matched by exactly one decrement
\* on every exit path (played, playback error, spawn failure): the counter
\* is at all times the number of requests that hold an increment and have
\* not finished, it never underflows, and it is 0 when all have finished.
C26_IncrementsMatched ==
    /\ audio.active = audio.playing + Spawning
    /\ audio.active >= 0
    /\ (audio.playing = 0 /\ InFlight(audio) = 0) => audio.active = 0

\* Requests have finished on each of the three exit paths, none is left, and
\* the counter is back at 0.
C26_Witness ==
    /\ audio.exits = {"played", "error", "spawn_failed"}
    /\ audio.playing = 0
    /\ InFlight(audio) = 0
    /\ audio.active = 0

\* C27: play_sound_file returns FileNotFound for a path that does not exist,
\* inside or outside the sound directories, and PathNotAllowed for an
\* existing file whose canonical path is under no sound directory; in both
\* cases the counter is unchanged and no worker is started.
C27_RejectedPathsStartNothing ==
    [][audio'.last.result # "none"
         => LET path == audio'.last.path
                result == audio'.last.result
                canonical == canonicalize(path)
            IN  /\ ~canonical.ok => result = "FileNotFound"
                /\ (/\ canonical.ok
                    /\ \A dir \in SoundDirs : ~starts_with(canonical.path, dir))
                      => result = "PathNotAllowed"
                /\ result \in {"FileNotFound", "PathNotAllowed"}
                      => /\ audio'.active = audio.active
                         /\ audio'.playing = audio.playing
                         /\ audio'.exiting = audio.exiting
                         /\ InFlight(audio') = InFlight(audio)]_vars

\* The traversal path out of /usr/share/sounds was refused while sounds were
\* playing.
C27_Witness ==
    /\ audio.last.result = "PathNotAllowed"
    /\ audio.last.path = SystemSounds \o <<"..", "..", "..", "etc", "passwd">>
    /\ audio.active > 0
    /\ audio.playing = audio.active

(***************************************************************************)
(* The ingress and the driver step by step.  Notify is a method on         *)
(* &mut self of the interface object: the object server runs it under the  *)
(* write lock of the interface, from its first statement to its return,    *)
(* and the driver takes the same lock (iface_ref.get_mut().await) to       *)
(* register an applet connection.  The positions of a Notify call are its  *)
(* await points: the interface lookup and the signal emission on each      *)
(* applet connection, and the send on the command channel.                 *)
(***************************************************************************)
notCall == <<now, clock, rlHist, appVars, driver, gh, audio, boot,
            util>>

\* The position after the mirroring loop has dealt with one connection.
AfterConn(todo) == IF todo = << >> THEN "send" ELSE "lookup"

\* notify up to its first await: periodic cleanup, rate limit, id, the
\* notification (lines 473-521).  A denied call returns at once.
NotifyBegin(app, rid, urg, tmo, tr, acts, sz) ==
    LET rl0 == IF next_id % CLEANUP_INTERVAL = 0
               THEN cleanup(limiter, now) ELSE limiter
        chk == IF Limited(rid) THEN check_and_update(rl0, app, now)
               ELSE [rl |-> rl0, ok |-> TRUE]
        denied == ~chk.ok
        id == IF denied THEN DUMMY_ID ELSE IF rid = 0 THEN next_id ELSE rid
        n == NewNotification(app, id, urg, tmo, tr, acts, sz, clock)
        todo == IF tr THEN << >> ELSE conns
    IN  /\ call.pc = "idle"
        /\ iface_lock = "free"
        /\ limiter' = chk.rl
        /\ next_id' = AllocId(denied, rid, next_id)
        /\ ncalls' = ncalls + 1
        /\ IF denied
           THEN /\ ret' = [NoRet EXCEPT !.seq = ret.seq + 1, !.rid = rid,
                                        !.denied = TRUE, !.id = id,
                                        !.transient = tr,
                                        !.prev_new = Newest(ret)]
                /\ UNCHANGED <<call, iface_lock>>
           ELSE /\ call' = [pc |-> AfterConn(todo), rid |-> rid, n |-> n,
                            todo |-> todo, new_conns |-> << >>]
                /\ iface_lock' = "notify"
                /\ ret' = ret
        /\ UNCHANGED <<conns, chan, applet_out, notCall>>

\* The interface lookup on the next connection returns, or fails, or takes
\* more than 100 ms: the loop goes on to the emission or to the next one.
NotifyLookup(found) ==
    /\ call.pc = "lookup"
    /\ call' = IF found THEN [call EXCEPT !.pc = "emit"]
               ELSE [call EXCEPT !.todo = Tail(@),
                                 !.pc = AfterConn(Tail(call.todo))]
    /\ conns' = IF ~found /\ Tail(call.todo) = << >> THEN call.new_conns
                ELSE conns
    /\ UNCHANGED <<limiter, next_id, chan, applet_out, ret, ncalls,
                   iface_lock, notCall>>

\* The emission returns, or fails, or takes more than 500 ms; the
\* connection is pushed to new_conns; after the last, self.2 = new_conns.
NotifyEmit(sent) ==
    /\ call.pc = "emit"
    /\ applet_out' = IF sent
                     THEN Append(applet_out,
                                 [conn |-> Head(call.todo), id |-> call.n.id])
                     ELSE applet_out
    /\ call' = [call EXCEPT !.todo = Tail(@),
                            !.new_conns = Append(@, Head(call.todo)),
                            !.pc = AfterConn(Tail(call.todo))]
    /\ conns' = IF Tail(call.todo) = << >>
                THEN Append(call.new_conns, Head(call.todo)) ELSE conns
    /\ UNCHANGED <<limiter, next_id, chan, ret, ncalls, iface_lock, notCall>>

\* self.0.send(..).await, then the return of the id: the lock is released.
NotifySend ==
    /\ call.pc = "send"
    /\ Len(chan) < CHANNEL_CAPACITY
    /\ chan' = Append(chan,
                 [kind |-> IF call.rid = 0 THEN "Notification" ELSE "Replace",
                  n |-> call.n])
    /\ ret' = [NoRet EXCEPT !.seq = ret.seq + 1, !.rid = call.rid,
                            !.id = call.n.id, !.transient = call.n.transient,
                            !.prev_new = Newest(ret)]
    /\ call' = NoNotifyCall
    /\ iface_lock' = "free"
    /\ UNCHANGED <<limiter, next_id, conns, applet_out, ncalls, notCall>>

\* NotificationsSocket::get_fd: the spawned task builds the connection and
\* sends Input::AppletConn(conn).
AppletConn(c) ==
    /\ Len(chan) < CHANNEL_CAPACITY
    /\ chan' = Append(chan, [kind |-> "AppletConn", conn |-> c])
    /\ ncalls' = ncalls + 1
    /\ UNCHANGED <<limiter, next_id, conns, applet_out, ret, notIngress>>

notDriver == <<limiter, next_id, applet_out, ret, ncalls, now, clock, rlHist,
               appVars, call, iface_lock, gh, audio, boot, util>>

\* Input::AppletConn(c): the driver has taken the input and awaits
\* iface_ref.get_mut().
DriverAppletConn ==
    /\ chan # << >>
    /\ Head(chan).kind = "AppletConn"
    /\ chan' = Tail(chan)
    /\ driver' = [pc |-> "get_mut", conn |-> Head(chan).conn]
    /\ UNCHANGED <<conns, notDriver>>

\* get_mut() returns once the lock is free: iface.2.push(c).
DriverGetMut ==
    /\ driver.pc = "get_mut"
    /\ iface_lock = "free"
    /\ conns' = Append(conns, driver.conn)
    /\ driver' = DriverRecv
    /\ UNCHANGED <<chan, notDriver>>

\* Input::GetHistory { tx }: forwarded as Event::GetHistory { tx }.
DriverGetHistory ==
    /\ DriverForward("GetHistory")
    /\ UNCHANGED <<notStore, ncalls, cards, hidden, active_surface,
                   notifications_tx, tasks, signals, lastop>>

(***************************************************************************)
(* GetHistory (NotificationsApplet::get_history) and its handling by the   *)
(* application.  `gh` is the call the claims follow, numbered by gh.seq;    *)
(* other clients' calls carry call = 0 and their replies are not followed. *)
(***************************************************************************)
notGetHistory == <<limiter, next_id, conns, applet_out, ret, now, clock,
                   rlHist, appVars, call, iface_lock, driver, audio, boot,
                   util>>

\* The reply in the D-Bus format: (id, app_name, .., timestamp) per entry.
HistoryReply(h) ==
    [i \in 1..Len(h) |->
        [id |-> h[i].id, app_name |-> h[i].app_name, time |-> h[i].time]]

\* The call is made: it creates the oneshot channel and begins to send.
GetHistoryCall ==
    /\ gh.pc \in {"idle", "done"}
    /\ gh' = [NoGetHistory EXCEPT !.pc = "sending", !.seq = gh.seq + 1]
    /\ ncalls' = ncalls + 1
    /\ UNCHANGED <<chan, notGetHistory>>

\* self.tx.send(Input::GetHistory { tx }).await returns.
GetHistorySend ==
    /\ gh.pc = "sending"
    /\ Len(chan) < CHANNEL_CAPACITY
    /\ chan' = Append(chan, [kind |-> "GetHistory", call |-> gh.seq])
    /\ gh' = [gh EXCEPT !.pc = "waiting"]
    /\ UNCHANGED <<ncalls, notGetHistory>>

\* timeout(2 s, rx) returns Ok(Ok(notifs)): the reply is converted.
GetHistoryReply ==
    /\ gh.pc = "waiting"
    /\ gh.reply # << >>
    /\ gh' = [gh EXCEPT !.pc = "done", !.result = "Ok",
                        !.list = HistoryReply(gh.reply[1])]
    /\ UNCHANGED <<chan, ncalls, notGetHistory>>

\* timeout(2 s, rx) returns Err(Elapsed): Failed("Timeout").
GetHistoryTimeout ==
    /\ gh.pc = "waiting"
    /\ gh.reply = << >>
    /\ gh' = [gh EXCEPT !.pc = "done", !.result = "Timeout"]
    /\ UNCHANGED <<chan, ncalls, notGetHistory>>

\* Other clients call GetHistory: k calls complete their send.
GetHistoryFlood(k) ==
    /\ k > 0
    /\ Len(chan) + k <= CHANNEL_CAPACITY
    /\ chan' = chan \o [i \in 1..k |-> [kind |-> "GetHistory", call |-> 0]]
    /\ ncalls' = ncalls + 1
    /\ UNCHANGED <<gh, notGetHistory>>

\* Message::Notification(Event::GetHistory { tx }): tx.send(hidden); the
\* send fails when the receiver is gone.
AppGetHistory ==
    /\ events # << >> /\ Head(events).kind = "GetHistory"
    /\ events' = Tail(events)
    /\ gh' = IF Head(events).call = gh.seq /\ gh.pc = "waiting"
             THEN [gh EXCEPT !.reply = <<hidden>>] ELSE gh
    /\ UNCHANGED <<ingressVars, now, clock, rlHist, cards, hidden,
                   active_surface, notifications_tx, config, tasks, signals,
                   lastop, call, iface_lock, driver, audio, boot, util>>

(***************************************************************************)
(* Specification SpecApplet: one client sending notifications, applets     *)
(* connecting and asking for the history, with the ingress and the driver  *)
(* taken step by step.  Every task that can take a step eventually does:   *)
(* the runtime schedules the driver, the application and the method calls, *)
(* the awaits of Notify are bounded by their timeouts, and the command     *)
(* channel serves its waiting senders in turn.                             *)
(***************************************************************************)
MaxAppletCalls == 4

AppletConns == {1}

AppletNotify ==
    /\ ncalls < MaxAppletCalls
    /\ NotifyBegin("a", 0, 1, 1000, FALSE, << >>, BaseSize)

NotifyStep ==
    \/ \E found \in BOOLEAN : NotifyLookup(found)
    \/ \E sent \in BOOLEAN : NotifyEmit(sent)
    \/ NotifySend

AppletConnect ==
    /\ ncalls < MaxAppletCalls
    /\ \E c \in AppletConns :
          /\ c \notin Range(conns)
          /\ driver.conn # c
          /\ \A k \in 1..Len(chan) : chan[k] # [kind |-> "AppletConn", conn |-> c]
          /\ AppletConn(c)

AppletGetHistory ==
    /\ ncalls < MaxAppletCalls
    /\ GetHistoryCall

\* A burst of GetHistory calls from other clients fills the command channel
\* while the driver is about to register an applet connection.
AppletFlood ==
    /\ ncalls < MaxAppletCalls
    /\ driver.pc = "get_mut"
    /\ GetHistoryFlood(CHANNEL_CAPACITY - Len(chan))

GetHistoryReturn == GetHistoryReply \/ GetHistoryTimeout

DriverStep ==
    \/ /\ driver.pc = "recv"
       /\ \/ DriverNotification
          \/ DriverGetHistory
          \/ DriverAppletConn
    \/ DriverGetMut

AppStep ==
    \/ AppReady
    \/ AppNotification
    \/ AppGetHistory
    \/ \E i \in 1..MaxAppletCalls : AppTimeout(i, 1000)

NextApplet ==
    \/ AppletNotify
    \/ AppletConnect
    \/ AppletGetHistory
    \/ AppletFlood
    \/ NotifyStep
    \/ GetHistorySend
    \/ GetHistoryReturn
    \/ DriverStep
    \/ AppStep

SpecApplet ==
    /\ Init
    /\ [][NextApplet]_vars
    /\ WF_vars(NotifyStep)
    /\ SF_vars(GetHistorySend)
    /\ WF_vars(GetHistoryReturn)
    /\ WF_vars(DriverStep)
    /\ WF_vars(AppStep)

\* C21: while a Notify call holds the lock on the ingress state it does only
\* local work: at none of its await points (interface lookup, signal
\* emission, send on the command channel) is the lock held.
C21_NoAwaitUnderLock ==
    call.pc \in {"lookup", "emit", "send"} => iface_lock # "notify"

\* C22: every GetHistory call completes, with the history, with
\* Failed("Timeout") or with Failed: it never waits forever.
C22_GetHistoryCompletes == (gh.pc \in {"sending", "waiting"}) ~> (gh.pc = "done")

(***************************************************************************)
(* Id allocation                                                           *)
(***************************************************************************)
\* C31: successive accepted Notify calls with replaces_id = 0 return ids
\* that increase by exactly one: an accepted new notification gets the id
\* of the previous accepted new notification plus one, whatever denied
\* calls and replacements came in between (ids stay below 2^32 here).
C31_IdsIncreaseByOne ==
    (ret.seq > 0 /\ ret.rid = 0 /\ ~ret.denied /\ ret.prev_new # 0)
        => ret.id = ret.prev_new + 1

\* Two new notifications were accepted one after the other: both are in the
\* command channel, the second with the id after the first.
C31_Witness ==
    /\ ret.seq = 2
    /\ ret.rid = 0
    /\ ~ret.denied
    /\ Len(chan) = 2
    /\ chan[1].kind = "Notification"
    /\ chan[2].kind = "Notification"
    /\ chan[1].n.id = ret.prev_new
    /\ chan[2].n.id = ret.id
    /\ ret.id > DUMMY_ID + 1

(***************************************************************************)
(* Startup of the subscription worker (notifications(), Machine<Start>,    *)
(* Conns::new), from the creation of the command channel on.  boot.pc:     *)
(*   "panel"     applet::setup_panel_conn is awaited                       *)
(*   "connect"   at the head of the loop `for _ in 0..5`                   *)
(*   "connected" Conns::new has returned Ok(conns)                         *)
(*   "error"     Conns::new has returned Err(Failure(..))                  *)
(*   "waiting"   Machine<Waiting>::exec runs                               *)
(*   "pending"   the worker is at futures::pending!() after a failure      *)
(***************************************************************************)
notBoot == <<ingressVars, now, clock, rlHist, call, iface_lock, driver, gh,
             audio, util>>

\* let panel = match applet::setup_panel_conn(tx.clone()).await: a failure
\* is logged and the panel connection is None.
SetupPanelConn(ok) ==
    /\ boot.pc = "panel"
    /\ boot' = [boot EXCEPT !.pc = "connect", !.panel = ok]
    /\ UNCHANGED <<notBoot, appVars>>

\* One pass of the loop.  "no_connection": the builder chain (session,
\* name, serve_at, serve_at) gives None, which is logged and followed by a
\* sleep of 100 ms; "build_failed": the chain gives a builder but building
\* the connection (which requests the name) fails, and the next pass starts
\* at once; "ok": the connection is built and Conns::new returns it.
Attempt(outcome) ==
    /\ boot.pc = "connect"
    /\ Len(boot.log) < CONNECT_ATTEMPTS
    /\ boot' = [boot EXCEPT !.log = Append(@, outcome),
                            !.pc = IF outcome = "ok" THEN "connected"
                                   ELSE "connect"]
    /\ UNCHANGED <<notBoot, appVars>>

\* The loop is over: Err(zbus::Error::Failure("Failed to create the dbus
\* server")).
ConnsNewFailed ==
    /\ boot.pc = "connect"
    /\ Len(boot.log) = CONNECT_ATTEMPTS
    /\ boot' = [boot EXCEPT !.pc = "error"]
    /\ UNCHANGED <<notBoot, appVars>>

\* Machine<Start>::exec, Ok(Ok(conns)): Event::Ready(conns.tx.clone()) is
\* sent to the application and the machine goes to Waiting.
ExecReady ==
    /\ boot.pc = "connected"
    /\ Len(events) < EVENT_CAPACITY
    /\ events' = Append(events, [kind |-> "Ready"])
    /\ boot' = [boot EXCEPT !.pc = "waiting"]
    /\ UNCHANGED <<notBoot, cards, hidden, active_surface, notifications_tx,
                   config, tasks, signals, lastop>>

\* Machine<Start>::exec, Ok(Err(err)): the error is logged and Err(()) is
\* returned; notifications() skips waiting.exec and reaches
\* futures::pending!().
ExecError ==
    /\ boot.pc = "error"
    /\ boot' = [boot EXCEPT !.pc = "pending"]
    /\ UNCHANGED <<notBoot, appVars>>

\* Message::Config(config): self.config = config.
AppConfig(c) ==
    /\ config # c
    /\ config' = c
    /\ UNCHANGED <<notBoot, boot, events, cards, hidden, active_surface,
                   notifications_tx, tasks, signals, lastop>>

(***************************************************************************)
(* SpecStart: the daemon from the start of the subscription worker, with   *)
(* every outcome of every connection attempt, and the application handling *)
(* the Ready event and configuration changes meanwhile and afterwards.     *)
(***************************************************************************)
AttemptOutcomes == {"ok", "no_connection", "build_failed"}
StartConfigs == {DefaultConfig, [DefaultConfig EXCEPT !.do_not_disturb = TRUE]}

InitStart ==
    /\ limiter = RateLimiterNew
    /\ next_id = 1
    /\ conns = << >>
    /\ chan = << >>
    /\ now = 0
    /\ clock = 0
    /\ applet_out = << >>
    /\ ret = NoRet
    /\ ncalls = 0
    /\ last = NoCall
    /\ probe = [start |-> 0, n |-> 0]
    /\ win = [a \in RLApps |-> [start |-> 0 - 1, n |-> 0]]
    /\ call = NoNotifyCall
    /\ iface_lock = "free"
    /\ driver = DriverRecv
    /\ gh = NoGetHistory
    /\ audio = AudioIdle
    /\ boot = [pc |-> "panel", panel |-> FALSE, log |-> << >>]
    /\ util = NoUtil
    /\ events = << >>
    /\ cards = << >>
    /\ hidden = << >>
    /\ active_surface = FALSE
    /\ notifications_tx = FALSE
    /\ config = DefaultConfig
    /\ tasks = EmptyBag
    /\ signals = << >>
    /\ lastop = NoOp

StartPanel == \E ok \in BOOLEAN : SetupPanelConn(ok)
StartAttempt == \E outcome \in AttemptOutcomes : Attempt(outcome)
StartConfig == \E c \in StartConfigs : AppConfig(c)

NextStart ==
    \/ StartPanel
    \/ StartAttempt
    \/ ConnsNewFailed
    \/ ExecReady
    \/ ExecError
    \/ AppReady
    \/ StartConfig

SpecStart == InitStart /\ [][NextStart]_vars

\* Every attempt to build the session-bus connection has failed.
AllAttemptsFailed ==
    /\ boot.pc \in {"error", "pending"}
    /\ \A k \in DOMAIN boot.log : boot.log[k] # "ok"

\* C32: if every attempt to acquire the session-bus name fails, the daemon
\* makes exactly five attempts, never emits the Ready event, and then
\* terminates: once the failure has been reported it takes no further step
\* (it does not go on running without a D-Bus server).
C32_FailedStartupTerminates ==
    /\ [](AllAttemptsFailed
            => /\ Len(boot.log) = CONNECT_ATTEMPTS
               /\ events = << >>
               /\ ~notifications_tx)
    /\ [][~(AllAttemptsFailed /\ boot.pc = "pending")]_vars

(***************************************************************************)
(* The sanitizer (cosmic-notifications-util/src/sanitizer.rs).  A string   *)
(* is a sequence of characters.  ammonia's clean is modelled by what it    *)
(* does to the strings used here: the HTML tokenizer's character           *)
(* references and tags, the removal of the tags that are not allowed, and  *)
(* the serializer's escaping of & < > in text.                             *)
(***************************************************************************)
AsciiLetters ==
    {"a", "b", "c", "d", "e", "f", "g", "h", "i", "j", "k", "l", "m", "n", "o", "p", "q", "r", "s", "t", "u", "v", "w", "x", "y", "z",
     "A", "B", "C", "D", "E", "F", "G", "H", "I", "J", "K", "L", "M", "N", "O", "P", "Q", "R", "S", "T", "U", "V", "W", "X", "Y", "Z"}

\* s has pat at position i.
Matches(s, i, pat) ==
    /\ i + Len(pat) - 1 <= Len(s)
    /\ SubSeq(s, i, i + Len(pat) - 1) = pat

\* str::replace: every non-overlapping match, from left to right.  Each
\* step copies the text before the leftmost match at or after i, writes
\* `to` and goes on behind the match.
RECURSIVE replace_from(_, _, _, _)
replace_from(s, i, from, to) ==
    LET found == {k \in i..Len(s) : Matches(s, k, from)}
    IN  IF found = {} THEN SubSeq(s, i, Len(s))
        ELSE LET m == CHOOSE k \in found : \A j \in found : k <= j
             IN  SubSeq(s, i, m - 1) \o to
                    \o replace_from(s, m + Len(from), from, to)

replace(s, from, to) == replace_from(s, 1, from, to)

\* decode_entities: the chain of replacements, &amp; last.
decode_entities(text) ==
    LET r1 == replace(text, <<"&", "l", "t", ";">>, <<"<">>)
        r2 == replace(r1, <<"&", "g", "t", ";">>, <<">">>)
        r3 == replace(r2, <<"&", "q", "u", "o", "t", ";">>, <<"\"">>)
        r4 == replace(r3, <<"&", "#", "3", "9", ";">>, <<"'">>)
        r5 == replace(r4, <<"&", "#", "x", "2", "F", ";">>, <<"/">>)
        r6 == replace(r5, <<"&", "#", "x", "2", "7", ";">>, <<"'">>)
        r7 == replace(r6, <<"&", "#", "4", "7", ";">>, <<"/">>)
        r8 == replace(r7, <<"&", "#", "3", "2", ";">>, <<" ">>)
        r9 == replace(r8, <<"&", "#", "5", "8", ";">>, <<":">>)
        r10 == replace(r9, <<"&", "#", "x", "3", "A", ";">>, <<":">>)
        r11 == replace(r10, <<"&", "#", "6", "1", ";">>, <<"=">>)
        r12 == replace(r11, <<"&", "a", "m", "p", ";">>, <<"&">>)
    IN  r12

\* The serializer's escaping of a character of text.
Escape(c) ==
    IF c = "&" THEN <<"&", "a", "m", "p", ";">>
    ELSE IF c = "<" THEN <<"&", "l", "t", ";">>
    ELSE IF c = ">" THEN <<"&", "g", "t", ";">>
    ELSE <<c>>

\* The character reference at position i (s[i] = "&"): the character it
\* stands for and its length.  amp, lt and gt are decoded with and without
\* the semicolon; any other "&" is text.  (No other reference occurs in the
\* strings used here.)
CharRef(s, i) ==
    LET semi(n) == IF i + n <= Len(s) /\ s[i + n] = ";" THEN 1 ELSE 0
    IN  IF Matches(s, i, <<"&", "a", "m", "p">>)
        THEN [char |-> "&", len |-> 4 + semi(4)]
        ELSE IF Matches(s, i, <<"&", "l", "t">>)
        THEN [char |-> "<", len |-> 3 + semi(3)]
        ELSE IF Matches(s, i, <<"&", "g", "t">>)
        THEN [char |-> ">", len |-> 3 + semi(3)]
        ELSE [char |-> "&", len |-> 1]

\* The position of the first c at or after i, 0 if there is none.
Find(s, i, c) ==
    LET found == {k \in i..Len(s) : s[k] \in c}
    IN  IF found = {} THEN 0 ELSE CHOOSE k \in found : \A j \in found : k <= j

\* The name of the tag whose name starts at i and whose ">" is at e.
TagName(s, i, e) == SubSeq(s, i, Find(s, i, {"/", ">"}) - 1)

\* The start tag ammonia writes for an element it keeps: attributes are
\* dropped (none but href is allowed), links get rel.
StartTag(name) ==
    IF name = <<"a">>
    THEN <<"<", "a", " ", "r", "e", "l", "=", "\"", "n", "o", "o", "p", "e", "n", "e", "r", " ", "n", "o", "r", "e", "f", "e", "r", "r", "e", "r", "\"", ">">>
    ELSE <<"<">> \o name \o <<">">>

EndTag(name) == <<"<", "/">> \o name \o <<">">>

\* The end tags of the elements still open at the end of the input.
RECURSIVE Closers(_)
Closers(open) ==
    IF open = << >> THEN << >> ELSE EndTag(Head(open)) \o Closers(Tail(open))

\* Builder::clean(html).to_string() with `tags` allowed, from position i on,
\* `open` being the kept elements that are open (innermost first).
RECURSIVE Clean(_, _, _, _)
Clean(tags, s, i, open) ==
    IF i > Len(s) THEN Closers(open)
    ELSE IF s[i] = "&"
    THEN LET ref == CharRef(s, i)
         IN  Escape(ref.char) \o Clean(tags, s, i + ref.len, open)
    ELSE IF s[i] = ">" THEN Escape(s[i]) \o Clean(tags, s, i + 1, open)
    ELSE IF s[i] # "<"
    THEN \* text: the characters up to the next & < > are written as they are
         LET m == Find(s, i, {"&", "<", ">"})
             e == IF m = 0 THEN Len(s) + 1 ELSE m
         IN  SubSeq(s, i, e - 1) \o Clean(tags, s, e, open)
    ELSE IF i + 1 <= Len(s) /\ s[i + 1] \in AsciiLetters
    THEN \* a start tag, up to the next ">"; without one it is dropped
         LET e == Find(s, i + 1, {">"})
             name == TagName(s, i + 1, e)
         IN  IF e = 0 THEN Closers(open)
             ELSE IF name \notin tags THEN Clean(tags, s, e + 1, open)
             ELSE IF name = <<"b", "r">>
             THEN StartTag(name) \o Clean(tags, s, e + 1, open)
             ELSE StartTag(name) \o Clean(tags, s, e + 1, <<name>> \o open)
    ELSE IF i + 2 <= Len(s) /\ s[i + 1] = "/" /\ s[i + 2] \in AsciiLetters
    THEN \* an end tag: it closes the innermost kept element or is ignored
         LET e == Find(s, i + 2, {">"})
             name == TagName(s, i + 2, e)
         IN  IF e = 0 THEN Closers(open)
             ELSE IF open # << >> /\ Head(open) = name
             THEN EndTag(name) \o Clean(tags, s, e + 1, Tail(open))
             ELSE Clean(tags, s, e + 1, open)
    ELSE IF i + 1 <= Len(s) /\ s[i + 1] = "/"
    THEN \* "</" at the end is text; "</>" and a bogus comment are dropped
         LET e == Find(s, i + 2, {">"})
         IN  IF i + 1 = Len(s) THEN Escape("<") \o <<"/">> \o Closers(open)
             ELSE IF e = 0 THEN Closers(open)
             ELSE Clean(tags, s, e + 1, open)
    ELSE \* "<" that opens no tag is text
         Escape("<") \o Clean(tags, s, i + 1, open)

\* The tags sanitize_html allows.
AllowedTags == {<<"b">>, <<"i">>, <<"u">>, <<"a">>, <<"b", "r">>, <<"p">>}

sanitize_html(html) == Clean(AllowedTags, html, 1, << >>)

\* One pass of strip_html: a cleaner that allows no tag, then
\* decode_entities.
strip_pass(text) == decode_entities(Clean({}, text, 1, << >>))

\* strip_html makes three such passes (without_real_tags and decoded,
\* after_second_pass and decoded_again, after_third_pass and the result);
\* the position after each of them.
AfterPass(stage) ==
    IF stage = "sanitized" THEN "decoded"
    ELSE IF stage = "decoded" THEN "decoded_again"
    ELSE "stripped"

(***************************************************************************)
(* SpecSanitize: strip_html(sanitize_html(input)) on text with and without *)
(* tags, wrapped in 0..MaxLayers layers of entity encoding.                *)
(***************************************************************************)
MaxLayers == 4

notUtil == <<ingressVars, now, clock, rlHist, appVars, call, iface_lock,
             driver, gh, audio, boot>>

\* One layer of entity encoding: & < > written as references.
RECURSIVE EncodeFrom(_, _)
EncodeFrom(s, i) ==
    LET m == Find(s, i, {"&", "<", ">"})
    IN  IF m = 0 THEN SubSeq(s, i, Len(s))
        ELSE SubSeq(s, i, m - 1) \o Escape(s[m]) \o EncodeFrom(s, m + 1)

RECURSIVE Encoded(_, _)
Encoded(s, layers) ==
    IF layers = 0 THEN s ELSE Encoded(EncodeFrom(s, 1), layers - 1)

Markups ==
    {<<"<", "s", ">">>,
     <<"<", "b", ">", "x">>,
     <<"<", "s", ">", "x", "<", "/", "s", ">">>,
     <<"<", "b", ">", "x", "<", "/", "b", ">">>,
     <<"a", "<", "b">>,
     <<"a", "<", ">", "b">>,
     <<"a", ">", "b">>,
     <<"a", "&", "b">>,
     <<"<", "i", ">", "x">>,
     <<"&", "l", "t", ";", "s", ">">>}

SanitizeInputs == {Encoded(m, k) : m \in Markups, k \in 0..MaxLayers}

\* A notification body arrives.
SanitizeBegin(html) ==
    /\ util = NoUtil
    /\ util' = [fn |-> "strip_html", stage |-> "input", input |-> html,
                text |-> html]
    /\ UNCHANGED notUtil

SanitizeHtml ==
    /\ util.fn = "strip_html" /\ util.stage = "input"
    /\ util' = [util EXCEPT !.stage = "sanitized",
                            !.text = sanitize_html(util.text)]
    /\ UNCHANGED notUtil

\* strip_html, one pass at a time.
StripHtml ==
    /\ util.fn = "strip_html"
    /\ util.stage \in {"sanitized", "decoded", "decoded_again"}
    /\ util' = [util EXCEPT !.stage = AfterPass(util.stage),
                            !.text = strip_pass(util.text)]
    /\ UNCHANGED notUtil

SanitizeBody == \E html \in SanitizeInputs : SanitizeBegin(html)

NextSanitize == SanitizeBody \/ SanitizeHtml \/ StripHtml

SpecSanitize == Init /\ [][NextSanitize]_vars

\* C33: strip_html(sanitize_html(input)) contains no "<" immediately
\* followed by an ASCII letter, however many layers of entity encoding are
\* wrapped around a tag of the input.
C33_NoSurvivingTag ==
    (util.fn = "strip_html" /\ util.stage = "stripped")
        => \A i \in 1..(Len(util.text) - 1) :
              ~(util.text[i] = "<" /\ util.text[i + 1] \in AsciiLetters)

(***************************************************************************)
(* NotificationImage::from_raw_data (notification_image.rs).  Only the     *)
(* length of the buffer matters to what is read; the pixel values are not  *)
(* modelled.  Indexing a slice past its end panics.                        *)
(***************************************************************************)
MAX_IMAGE_WIDTH == 128
MAX_IMAGE_HEIGHT == 128

\* `v as usize` of an i32: a negative value becomes a number above every
\* buffer length (2^64 + v), for which UsizeHuge stands.
UsizeHuge == 2147483647
AsUsize(v) == IF v < 0 THEN UsizeHuge ELSE v

Channels(has_alpha) == IF has_alpha THEN 4 ELSE 3

\* if data.len() < (rowstride * height as i32) as usize
ShortBuffer(len, rowstride, height) == len < AsUsize(rowstride * height)

\* The validation at the head of from_raw_data: the error it returns, or
\* "rows" when the rows are read next.
ValidateRaw(len, width, height, rowstride) ==
    IF width <= 0 \/ height <= 0 THEN "Dimension"
    ELSE IF ShortBuffer(len, rowstride, height) THEN "InsufficientMemory"
    ELSE "rows"

\* The bytes row y is read from: data[row_start..row_start + width * channels].
RowOf(y, width, rowstride, has_alpha) ==
    LET row_start == AsUsize(y * rowstride)
    IN  [start |-> row_start, end |-> row_start + width * Channels(has_alpha)]

\* resize_if_needed leaves an image within the maximum size as it is.
NeedsResize(width, height) ==
    ~(width <= MAX_IMAGE_WIDTH /\ height <= MAX_IMAGE_HEIGHT)

(***************************************************************************)
(* SpecImage: from_raw_data on buffers of 0..MaxBuffer bytes with widths,  *)
(* heights and row strides around zero and around the size of a row.       *)
(***************************************************************************)
MaxBuffer == 8

ImageLens == 0..MaxBuffer
ImageDims == {0 - 1, 0, 1, 2}
ImageStrides == {0 - 1, 0, 3, 4, 6, 8}

FromRawData(len, width, height, rowstride, has_alpha) ==
    /\ util = NoUtil
    /\ util' = [fn |-> "from_raw_data", pc |-> "validate", len |-> len,
                width |-> width, height |-> height, rowstride |-> rowstride,
                has_alpha |-> has_alpha, y |-> 0, rows |-> << >>,
                result |-> "none"]
    /\ UNCHANGED notUtil

FromRawDataValidate ==
    /\ util.fn = "from_raw_data" /\ util.pc = "validate"
    /\ LET v == ValidateRaw(util.len, util.width, util.height, util.rowstride)
       IN  util' = IF v = "rows" THEN [util EXCEPT !.pc = "rows"]
                   ELSE [util EXCEPT !.pc = "done", !.result = v]
    /\ UNCHANGED notUtil

\* One pass of `for y in 0..height`: the slice is taken, which panics when
\* it ends past the buffer.
FromRawDataRow ==
    /\ util.fn = "from_raw_data" /\ util.pc = "rows" /\ util.y < util.height
    /\ LET row == RowOf(util.y, util.width, util.rowstride, util.has_alpha)
       IN  util' = IF row.end > util.len
                   THEN [util EXCEPT !.pc = "done", !.result = "panic",
                                     !.rows = Append(@, row)]
                   ELSE [util EXCEPT !.y = @ + 1, !.rows = Append(@, row)]
    /\ UNCHANGED notUtil

\* After the rows: the conversion to RGBA and resize_if_needed, Ok(..).
FromRawDataReturn ==
    /\ util.fn = "from_raw_data" /\ util.pc = "rows" /\ util.y = util.height
    /\ ~NeedsResize(util.width, util.height)
    /\ util' = [util EXCEPT !.pc = "done", !.result = "Ok"]
    /\ UNCHANGED notUtil

ImageCall ==
    \E len \in ImageLens, width \in ImageDims, height \in ImageDims,
       rowstride \in ImageStrides, has_alpha \in BOOLEAN :
       FromRawData(len, width, height, rowstride, has_alpha)

NextImage ==
    ImageCall \/ FromRawDataValidate \/ FromRawDataRow \/ FromRawDataReturn

SpecImage == Init /\ [][NextImage]_vars

\* C34: from_raw_data never panics: it returns a ProcessedImage or an error
\* (the dimension error for a non-positive width or height, the
\* insufficient-memory error for a buffer shorter than rowstride * height),
\* and every row it reads lies inside the buffer.
C34_FromRawDataNeverPanics ==
    util.fn = "from_raw_data"
        => /\ util.result \in {"none", "Ok", "Dimension", "InsufficientMemory"}
           /\ util.result = "Dimension"
                 => (util.width <= 0 \/ util.height <= 0)
           /\ util.result = "InsufficientMemory"
                 => util.len < AsUsize(util.rowstride * util.height)
           /\ \A k \in DOMAIN util.rows : util.rows[k].end <= util.len

(***************************************************************************)
(* AnimatedImage::from_data (animated_image.rs).  The GIF decoder's output *)
(* is the input: for each frame whether it decoded, and its delay as the   *)
(* ratio (numer, denom) of milliseconds that frame.delay().numer_denom_ms() *)
(* returns.  Pixels are not modelled.                                      *)
(***************************************************************************)
MAX_FRAMES == 100
MAX_ANIMATION_DURATION == 30000    \* Duration::from_secs(30), in ms
MIN_DELAY == 10                    \* delay_ms.max(10)

\* let delay_ms = ((numer as u64 * 1000) / denom as u64) as u32, then
\* delay_ms.max(10).  (The values used here stay below 2^32.)
FrameDelay(numer, denom) ==
    LET delay_ms == (numer * 1000) \div denom
    IN  IF delay_ms < MIN_DELAY THEN MIN_DELAY ELSE delay_ms

\* AnimatedImage::new: the sum of the delays.
RECURSIVE TotalDuration(_)
TotalDuration(frames) ==
    IF frames = << >> THEN 0 ELSE Head(frames) + TotalDuration(Tail(frames))

(***************************************************************************)
(* SpecAnimated: GIFs of 0, 1, 2, MAX_FRAMES and more frames with equal    *)
(* delays of 0, 1, 2 and MaxGifDelay hundredths of a second, the second    *)
(* frame possibly failing to decode.                                       *)
(***************************************************************************)
MaxGifDelay == 1600

GifLengths == {0, 1, 2, 3, MAX_FRAMES, MAX_FRAMES + 1}
GifDelays == {0, 1, 2, MaxGifDelay}

\* The decoder's frames: a delay of d hundredths is the ratio (10 * d, 1).
Gif(n, d, corrupt) ==
    [k \in 1..n |-> [ok |-> ~(corrupt /\ k = 2), numer |-> 10 * d,
                     denom |-> 1]]

FromData(gif) ==
    /\ util = NoUtil
    /\ util' = [fn |-> "from_data", pc |-> "frames", gif |-> gif, pos |-> 1,
                frames |-> << >>, result |-> "none", total |-> 0]
    /\ UNCHANGED notUtil

\* into_frames().filter_map(|f| f.ok()).take(MAX_FRAMES).map(..): the next
\* frame is pulled while fewer than MAX_FRAMES have been taken.
FromDataFrame ==
    /\ util.fn = "from_data" /\ util.pc = "frames"
    /\ Len(util.frames) < MAX_FRAMES
    /\ util.pos <= Len(util.gif)
    /\ LET f == util.gif[util.pos]
       IN  util' = [util EXCEPT
                      !.pos = @ + 1,
                      !.frames = IF f.ok
                                 THEN Append(@, FrameDelay(f.numer, f.denom))
                                 ELSE @]
    /\ UNCHANGED notUtil

\* collect() is over: Some(Self::new(frames)) for more than one frame.
FromDataReturn ==
    /\ util.fn = "from_data" /\ util.pc = "frames"
    /\ Len(util.frames) = MAX_FRAMES \/ util.pos > Len(util.gif)
    /\ util' = IF Len(util.frames) > 1
               THEN [util EXCEPT !.pc = "done", !.result = "Some",
                                 !.total = TotalDuration(util.frames)]
               ELSE [util EXCEPT !.pc = "done", !.result = "None"]
    /\ UNCHANGED notUtil

AnimatedCall ==
    \E n \in GifLengths, d \in GifDelays, corrupt \in BOOLEAN :
       FromData(Gif(n, d, corrupt))

NextAnimated == AnimatedCall \/ FromDataFrame \/ FromDataReturn

SpecAnimated == Init /\ [][NextAnimated]_vars

\* C35: every AnimatedImage produced by decoding has at most 100 frames,
\* every frame delay is at least 10 ms, and the total duration of its
\* frames is at most 30 s.
C35_AnimationBounded ==
    (util.fn = "from_data" /\ util.result = "Some")
        => /\ Len(util.frames) <= MAX_FRAMES
           /\ \A k \in DOMAIN util.frames : util.frames[k] >= MIN_DELAY
           /\ util.total <= MAX_ANIMATION_DURATION

(***************************************************************************)
(* Claims about the lock and the channel (checked under SpecApplet)        *)
(***************************************************************************)
\* C36: the pipeline cannot deadlock: in no reachable state does a Notify
\* call that holds the interface lock wait for space in the full command
\* channel while the driver, the channel's only consumer, waits for that
\* lock in its AppletConn handler.
C36_NoLockChannelDeadlock ==
    ~(/\ call.pc = "send"
      /\ iface_lock = "notify"
      /\ Len(chan) = CHANNEL_CAPACITY
      /\ driver.pc = "get_mut")

(***************************************************************************)
(* Further claims about the pipeline (checked under Spec)                  *)
(***************************************************************************)
\* C37: at most one NotificationClosed signal is emitted for any one
\* notification, and none for an id that is in neither the visible queue
\* nor the hidden history when CloseNotification(id) is called.  Stated for
\* the behaviours in which notifications cannot be confused: as long as no
\* Notify call has been made no notification exists, so no signal may be
\* emitted at all; and as long as at most one has been made, at most one
\* notification has existed, so no id may be signalled twice.
C37_AtMostOneClosed ==
    /\ ret.seq = 0 => \A k \in 1..Len(signals) :
                          signals[k].sig # "NotificationClosed"
    /\ ret.seq <= 1 => \A i \in CloseIds :
                           Cardinality({k \in 1..Len(signals) : Closed(k, i)}) <= 1

(***************************************************************************)
(* Activation requested by the applet: invoke_action on the applet         *)
(* interface, the driver's forward, and the application's request for a    *)
(* token.                                                                  *)
(***************************************************************************)
\* NotificationsApplet::invoke_action(id, action).
AppletInvokeAction(i, action) ==
    /\ Len(chan) < CHANNEL_CAPACITY
    /\ chan' = Append(chan, [kind |-> "AppletActivated", id |-> i,
                             action |-> action])
    /\ ncalls' = ncalls + 1
    /\ UNCHANGED <<limiter, next_id, conns, applet_out, ret, notIngress>>

\* Input::AppletActivated { id, action }: forwarded as an event.
DriverAppletActivated ==
    /\ DriverForward("AppletActivated")
    /\ UNCHANGED <<notStore, ncalls, cards, hidden, active_surface,
                   notifications_tx, tasks, signals, lastop>>

\* Message::Notification(Event::AppletActivated { id, action }):
\* request_activation(id, Some(action)).
AppAppletActivated ==
    /\ events # << >> /\ Head(events).kind = "AppletActivated"
    /\ events' = Tail(events)
    /\ tasks' = Spawn(tasks, Task("Token", Head(events).id,
                                  Head(events).action, 0))
    /\ UNCHANGED <<notUpdate, cards, hidden, active_surface,
                   notifications_tx, lastop>>

(***************************************************************************)
(* SpecActivate: notifications with no action, a default action, two       *)
(* custom actions, and a custom and a default action; activated by a click *)
(* on the card or on an action button, or from the applet with a key the   *)
(* notification has or does not have, while visible or in the history.     *)
(***************************************************************************)
MaxActivateCalls == 3

ActivateIds == {1, 2}
ActivateTimeouts == {0, 1000}
ActivateActions ==
    {<< >>, <<"default">>, <<"open", "reply">>, <<"open", "default">>}
ActionKeys == {"default", "open", "reply", "other"}

ActivateNotify ==
    /\ ncalls < MaxActivateCalls
    /\ \E tmo \in ActivateTimeouts, acts \in ActivateActions :
          Notify("a", 0, 1, tmo, FALSE, acts, BaseSize, << >>)

ActivateInvoke ==
    /\ ncalls < MaxActivateCalls
    /\ \E i \in ActivateIds, action \in ActionKeys :
          AppletInvokeAction(i, action)

ActivateClick ==
    /\ ncalls < MaxActivateCalls
    /\ \E i \in ActivateIds, action \in ActionKeys \cup {NoAction} :
          UserActivate(i, action)

ActivateDriver ==
    \/ DriverNotification
    \/ DriverAppletActivated
    \/ DriverActivated
    \/ DriverDismissed

ActivateUpdate ==
    \/ AppReady
    \/ AppNotification
    \/ AppAppletActivated
    \/ \E i \in ActivateIds :
          \/ AppDismissed(i)
          \/ \E d \in ActivateTimeouts : AppTimeout(i, d)
          \/ \E action \in ActionKeys \cup {NoAction}, granted \in BOOLEAN :
                AppActivationToken(i, action, granted)

ActivateTasks ==
    \E i \in ActivateIds :
       \/ SendDismissed(i, Dismissed)
       \/ \E action \in ActionKeys : SendActivated(i, action)

NextActivate ==
    \/ ActivateNotify
    \/ ActivateInvoke
    \/ ActivateClick
    \/ ActivateDriver
    \/ ActivateUpdate
    \/ ActivateTasks

SpecActivate == Init /\ [][NextActivate]_vars

\* The step in which update handles Message::ActivationToken(Some(token),
\* i, a) and calls activate_notification.
ActivationHandled(i, a) ==
    /\ BagIn(Task("Token", i, a, 0), tasks)
    /\ CopiesIn(Task("Token", i, a, 0), tasks')
          = CopiesIn(Task("Token", i, a, 0), tasks) - 1
    /\ lastop'.op = "activate"
    /\ lastop'.id = i
    /\ lastop'.action = a

\* The key the signal is to carry for notification n and requested key a.
ExpectedKey(n, a) ==
    IF a \in Range(n.actions) THEN a
    ELSE IF "default" \in Range(n.actions) THEN "default"
    ELSE n.actions[1]

\* C38: when a notification in the visible queue or the history is
\* activated with a requested action key, ActionInvoked carries that key if
\* the notification has an action with it, otherwise "default" if it has a
\* default action, otherwise the key of its first action; a notification
\* without actions gets no ActionInvoked and is closed as dismissed.  The
\* activation starts exactly one future, with the expected key; the future
\* sends Input::Activated with that key; the driver emits ActionInvoked with
\* the key of the input.
C38_ActionSelection ==
    [][/\ \A i \in ActivateIds, a \in ActionKeys \cup {NoAction} :
            (ActivationHandled(i, a) /\ (HasId(cards, i) \/ HasId(hidden, i)))
               => LET n == Lookup(AppState, i)
                      started(key) ==
                          CopiesIn(Task("Activation", i, key, 0), tasks')
                            - CopiesIn(Task("Activation", i, key, 0), tasks)
                  IN  IF n.actions = << >>
                      THEN /\ \A key \in ActionKeys : started(key) = 0
                           /\ ~HasId(cards', i) /\ ~HasId(hidden', i)
                           /\ Len(cards') + Len(hidden')
                                 = Len(cards) + Len(hidden) - 1
                           /\ CopiesIn(Task("SendDismissed", i, "", Dismissed),
                                       tasks')
                                 = CopiesIn(Task("SendDismissed", i, "",
                                                 Dismissed), tasks) + 1
                      ELSE /\ \A key \in ActionKeys :
                                 started(key)
                                   = IF key = ExpectedKey(n, a) THEN 1 ELSE 0
                           /\ cards' = cards /\ hidden' = hidden
       /\ (Len(chan') = Len(chan) + 1 /\ chan'[Len(chan')].kind = "Activated")
             => LET m == chan'[Len(chan')]
                IN  /\ BagIn(Task("Activation", m.id, m.action, 0), tasks)
                    /\ CopiesIn(Task("Activation", m.id, m.action, 0), tasks')
                          = CopiesIn(Task("Activation", m.id, m.action, 0),
                                     tasks) - 1
       /\ (Len(signals') > Len(signals)
            /\ signals'[Len(signals')].sig = "ActionInvoked")
             => /\ Head(chan).kind = "Activated"
                /\ signals'[Len(signals')].id = Head(chan).id
                /\ signals'[Len(signals')].action = Head(chan).action
                /\ \A k \in (Len(signals) + 1)..(Len(signals') - 1) :
                      signals'[k].sig # "ActionInvoked"]_vars

\* A notification in the history with the actions open and reply was
\* activated from the applet with a key it does not have: the activation
\* with its first key, open, is under way.
C38_Witness ==
    /\ lastop.op = "activate"
    /\ lastop.action = "other"
    /\ lastop.n.actions = <<"open", "reply">>
    /\ HasId(hidden, lastop.id)
    /\ BagIn(Task("Activation", lastop.id, "open", 0), tasks)

(***************************************************************************)
(* SpecDnd: notifications pushed while the configuration's do_not_disturb  *)
(* is switched on and off; they expire or are dismissed by the user.       *)
(***************************************************************************)
MaxDndCalls == 3

DndIds == 1..MaxDndCalls

DndNotify ==
    /\ ncalls < MaxDndCalls
    /\ \E tmo \in ActivateTimeouts :
          Notify("a", 0, 1, tmo, FALSE, << >>, BaseSize, << >>)

DndTimeout == \E i \in DndIds, d \in ActivateTimeouts : AppTimeout(i, d)

DndDismiss ==
    /\ ncalls < MaxDndCalls
    /\ \E i \in DndIds : UserDismissed(i)

DndSend == \E i \in DndIds : SendDismissed(i, Dismissed)

NextDnd ==
    \/ DndNotify
    \/ DndDismiss
    \/ DndSend
    \/ StartConfig
    \/ DriverNotification
    \/ DriverDismissed
    \/ AppReady
    \/ AppNotification
    \/ DndTimeout

SpecDnd == Init /\ [][NextDnd]_vars

\* C39: whenever a notification is pushed while do_not_disturb is off, the
\* overlay surface is active afterwards, also when the visible queue
\* already held notifications that arrived while do_not_disturb was on.
C39_PushActivatesSurface ==
    [][(PushHandled /\ ~config.do_not_disturb) => active_surface']_vars

(***************************************************************************)
(* SpecUrgency: notifications carrying any urgency hint, also one outside  *)
(* the three levels of the specification, pushed under the default caps.   *)
(***************************************************************************)
MaxUrgencyCalls == 3
MaxUrgencyClock == 1

UrgencyHints == 0..3
UrgencyTimeouts == {0, 4000}
UrgencyIds == 1..MaxUrgencyCalls

\* NotificationUrgency::from(value) as its discriminant: Low = 0,
\* Normal = 1, Critical = 2; every other value is Normal.
NotificationUrgencyFrom(value) ==
    IF value = 0 THEN 0 ELSE IF value = 2 THEN 2 ELSE 1

UrgencyNotify ==
    /\ ncalls < MaxUrgencyCalls
    /\ \E urg \in UrgencyHints, tmo \in UrgencyTimeouts :
          Notify("a", 0, urg, tmo, FALSE, << >>, BaseSize, << >>)

UrgencyTimeout == \E i \in UrgencyIds, d \in Delays : AppTimeout(i, d)

NextUrgency ==
    \/ UrgencyNotify
    \/ ClockTick(MaxUrgencyClock)
    \/ DriverNotification
    \/ AppReady
    \/ AppNotification
    \/ UrgencyTimeout

SpecUrgency == Init /\ [][NextUrgency]_vars

\* The notification, and the queue, with every urgency hint replaced by the
\* discriminant of the level NotificationUrgency::from gives it.
AsLevel(n) == [n EXCEPT !.urgency = NotificationUrgencyFrom(@)]
AsLevels(q) == [k \in 1..Len(q) |-> AsLevel(q[k])]
IdsOf(q) == [k \in 1..Len(q) |-> q[k].id]

\* C40: a notification whose urgency hint is outside {0, 1, 2} is handled
\* as one of normal urgency: its push leaves the visible queue in the order,
\* and schedules the timer, that the same push leaves and schedules when
\* every hint outside {0, 1, 2} is read as 1.
C40_UnknownUrgencyIsNormal ==
    [][(PushHandled /\ Head(events).n.urgency \notin {0, 1, 2})
          => LET st == [AppState EXCEPT !.cards = AsLevels(@)]
                 as_normal == push_notification(st, AsLevel(Head(events).n),
                                                config)
             IN  /\ IdsOf(cards') = IdsOf(as_normal.cards)
                 /\ tasks' = as_normal.tasks]_vars

=============================================================================
